---- MODULE Spec2Model ----
(***************************************************************************)
(* Feed-assembly core of xazalea/oxygen: cold-start / virality engine,     *)
(* contextual bandit, novelty injector, failure-mode handler and the       *)
(* inference pipeline that chains them.                                    *)
(*                                                                         *)
(* Numbers.  The code computes in float64; the model computes in exact     *)
(* rational arithmetic (pairs <<numerator, denominator>>, denominator > 0, *)
(* reduced).  Fractions of the code are kept as rationals: 0.9 is <<9,10>>.*)
(* Watch times, completion rates and baselines are given in tenths.        *)
(***************************************************************************)
EXTENDS Integers, Sequences, FiniteSets, TLC

VARIABLES
    video_states,       \* ColdStartEngine.video_states      : video_id -> state dict
    cohort_baselines,   \* ColdStartEngine.cohort_baselines  : cohort_id -> baseline dict
    vf_meta,            \* exposure fields of the VideoFeatures objects, per video_id
    arm_stats,          \* ContextualBandit.A and ContextualBandit.b : video_id -> statistics
    user_embeddings,    \* InferencePipeline.user_embeddings : user_id -> UserFeatures
    candidates,         \* the candidate list a stage is working on
    inputs,             \* the other arguments of the stage under study
    nops,               \* number of operations executed so far (bounded by the guards)
    last                \* the last call: operation, arguments, pre-state, result

vars == <<video_states, cohort_baselines, vf_meta, arm_stats, user_embeddings,
          candidates, inputs, nops, last>>

coldVars == <<video_states, cohort_baselines, vf_meta>>

\* what the cold-start engine never touches
nonColdVars == <<arm_stats, user_embeddings, candidates, inputs>>

\* what the stand-alone stages (filters, penalties, injections) never touch
engineVars == <<video_states, cohort_baselines, vf_meta, arm_stats, user_embeddings>>

-----------------------------------------------------------------------------
(* Bounds of the model                                                     *)

MaxColdOps    == 3      \* operations per behaviour of the cold-start specification

-----------------------------------------------------------------------------
(* Exact rational arithmetic                                               *)

Abs(x) == IF x < 0 THEN -x ELSE x

Min(a, b) == IF a < b THEN a ELSE b

Max(a, b) == IF a > b THEN a ELSE b

RECURSIVE GCD(_, _)
GCD(a, b) == IF b = 0 THEN a ELSE GCD(b, a % b)

R(n, d) ==
    LET s == IF d < 0 THEN -1 ELSE 1
        g == GCD(Abs(n), Abs(d))
    IN  <<(s * n) \div g, (s * d) \div g>>

RAdd(x, y) == R(x[1] * y[2] + y[1] * x[2], x[2] * y[2])

RSub(x, y) == R(x[1] * y[2] - y[1] * x[2], x[2] * y[2])

RMul(x, y) == R(x[1] * y[1], x[2] * y[2])

RDiv(x, y) == R(x[1] * y[2], x[2] * y[1])

RLess(x, y) == x[1] * y[2] < y[1] * x[2]

RLeq(x, y) == x[1] * y[2] <= y[1] * x[2]

RZero == <<0, 1>>

ROne == <<1, 1>>

\* int(x) of Python for a rational x: truncation toward zero
IntTrunc(x) == IF x[1] >= 0 THEN x[1] \div x[2] ELSE -((-x[1]) \div x[2])

RECURSIVE SumSeq(_)
SumSeq(s) == IF s = <<>> THEN 0 ELSE Head(s) + SumSeq(Tail(s))

RECURSIVE SetToSeq(_)
SetToSeq(S) ==
    IF S = {} THEN <<>>
    ELSE LET m == CHOOSE x \in S : \A y \in S : x <= y
         IN  <<m>> \o SetToSeq(S \ {m})

SeqToSet(s) == {s[i] : i \in 1..Len(s)}

-----------------------------------------------------------------------------
(* Cold-start engine (src/lib/ranking/cold_start.py)                       *)

InitialCohortSize  == 500
ExpansionThreshold == <<6, 5>>      \* 1.2
ExpansionFactor    == <<2, 1>>      \* 2.0
DecayFactor        == <<9, 10>>     \* 0.9

DefaultBaseline == [watch_time_avg |-> 5, completion_rate |-> 3, skip_rate |-> 4]

\* video ids of the cold-start specification; only NewVideoIds are ingested,
\* the other id stays an item without ColdStartState
ColdVideoIds == {1, 2}

NewVideoIds == {1}

\* hash((video_id, len(video_states))): a distinct id per pair
HashPair(video_id, n) == 100 + 10 * video_id + n

\* random.randint(initial_cohort_size // 2, initial_cohort_size * 2): the
\* two ends of the range and the configured size
CohortSizeChoices ==
    {InitialCohortSize \div 2, InitialCohortSize, InitialCohortSize * 2}

\* a drawing with replacement: the first entry, k times
SampleRepeating(population, k) == {[i \in 1..k |-> population[1]]}

\* random.sample(population, k): k entries at distinct positions.  The model
\* draws the first k or the last k entries (the order of a sample is not
\* read by any operation).
Sample(population, k) ==
    {SubSeq(population, 1, k),
     SubSeq(population, Len(population) - k + 1, Len(population))}

HasState(vs, video_id) == video_id \in DOMAIN vs

PutState(vs, video_id, st) ==
    [v \in DOMAIN vs \cup {video_id} |-> IF v = video_id THEN st ELSE vs[v]]

PutBaseline(cb, cohort_id, bl) ==
    [c \in DOMAIN cb \cup {cohort_id} |-> IF c = cohort_id THEN bl ELSE cb[c]]

\* initial_exposure, lines 60-88, for a drawn cohort
NewState(cohort_id, cohort) ==
    [cohort_id |-> cohort_id,
     cohort |-> cohort,
     exposure_count |-> Len(cohort),
     interactions |-> <<>>,
     performance_score |-> RZero,
     stage |-> "initial",
     has_exposed_users |-> FALSE,
     exposed_users |-> {},
     has_viral_expansion_factor |-> FALSE,
     viral_expansion_factor |-> 0]

\* cohort_id argument: 0 stands for None
EffectiveCohortId(vs, video_id, cohort_id) ==
    IF cohort_id = 0 THEN HashPair(video_id, Cardinality(DOMAIN vs)) ELSE cohort_id

BaselinesAfterExposure(cb, cid) ==
    IF cid \in DOMAIN cb THEN cb ELSE PutBaseline(cb, cid, DefaultBaseline)

\* averages of a non-empty interaction sample, as rationals
AvgWatchTime(interactions) ==
    R(SumSeq([i \in 1..Len(interactions) |-> interactions[i].watch_time]),
      10 * Len(interactions))

AvgCompletion(interactions) ==
    R(SumSeq([i \in 1..Len(interactions) |-> interactions[i].completion_rate]),
      10 * Len(interactions))

AvgSkip(interactions) ==
    R(SumSeq([i \in 1..Len(interactions) |->
                IF interactions[i].skip THEN 1 ELSE 0]),
      Len(interactions))

\* the skip term added instead of subtracted
PerformanceScoreSkipAdded(interactions, baseline) ==
    LET normalized_watch_time ==
            IF baseline.watch_time_avg > 0
            THEN RDiv(AvgWatchTime(interactions), R(baseline.watch_time_avg, 10))
            ELSE RZero
        normalized_completion ==
            IF baseline.completion_rate > 0
            THEN RDiv(AvgCompletion(interactions), R(baseline.completion_rate, 10))
            ELSE RZero
        normalized_skip ==
            IF baseline.skip_rate > 0
            THEN RDiv(AvgSkip(interactions), R(baseline.skip_rate, 10))
            ELSE ROne
    IN  RAdd(RAdd(RMul(normalized_watch_time, R(4, 10)),
                  RMul(normalized_completion, R(4, 10))),
             RMul(normalized_skip, R(2, 10)))

\* lines 125-143
PerformanceScore(interactions, baseline) ==
    LET normalized_watch_time ==
            IF baseline.watch_time_avg > 0
            THEN RDiv(AvgWatchTime(interactions), R(baseline.watch_time_avg, 10))
            ELSE RZero
        normalized_completion ==
            IF baseline.completion_rate > 0
            THEN RDiv(AvgCompletion(interactions), R(baseline.completion_rate, 10))
            ELSE RZero
        normalized_skip ==
            IF baseline.skip_rate > 0
            THEN RDiv(AvgSkip(interactions), R(baseline.skip_rate, 10))
            ELSE ROne
    IN  RSub(RAdd(RMul(normalized_watch_time, R(4, 10)),
                  RMul(normalized_completion, R(4, 10))),
             RMul(normalized_skip, R(2, 10)))

\* normalize_performance: the returned score and the states afterwards
normalize_performance(vs, cb, video_id, interactions) ==
    IF ~HasState(vs, video_id) THEN [ret |-> RZero, vs |-> vs]
    ELSE IF Len(interactions) = 0 THEN [ret |-> RZero, vs |-> vs]
    ELSE LET score == PerformanceScore(interactions, cb[vs[video_id].cohort_id])
         IN  [ret |-> score,
              vs |-> PutState(vs, video_id,
                        [vs[video_id] EXCEPT !.performance_score = score,
                                             !.interactions = interactions])]

\* the factor added instead of multiplied
NextExposureAdditive(current_exposure) ==
    current_exposure + IntTrunc(ExpansionFactor)

\* line 177
NextExposure(current_exposure) ==
    IntTrunc(RMul(R(current_exposure, 1), ExpansionFactor))

\* the decayed count rounded up instead of truncated
DecayedExposureRoundedUp(current_exposure) ==
    LET x == RMul(R(current_exposure, 1), DecayFactor)
    IN  IF IntTrunc(x) * x[2] = x[1] THEN IntTrunc(x) ELSE IntTrunc(x) + 1

\* line 227
DecayedExposure(current_exposure) ==
    IntTrunc(RMul(R(current_exposure, 1), DecayFactor))

Expands(st) == RLess(ExpansionThreshold, st.performance_score)

\* lines 183-186
EngagedUsers(st) ==
    LET eng == SelectSeq(st.interactions,
                         LAMBDA i : i.watch_time > 5 /\ ~i.skip)
    IN  [k \in 1..Len(eng) |-> eng[k].user_id]

\* lines 190-195: union of the first 20 similar users of the first 10 engaged users
SimilarUsers(engaged_users, simmap) ==
    UNION {SeqToSet(SubSeq(simmap[engaged_users[k]], 1,
                           Min(20, Len(simmap[engaged_users[k]])))) :
           k \in {j \in 1..Min(10, Len(engaged_users)) :
                    engaged_users[j] \in DOMAIN simmap}}

\* lines 198-201
AvailableUsers(st, similar, user_pool) ==
    {u \in similar :
        /\ u \in SeqToSet(user_pool)
        /\ u \notin (IF st.has_exposed_users THEN st.exposed_users ELSE {})}

\* the lists viral_expansion may select, lines 181-215.  A similarity map is
\* [present |-> BOOLEAN, m |-> map]; iteration order of the Python set is
\* arbitrary, so any new_exposures available users may be the ones taken.
NewUserChoices(st, user_pool, simmap) ==
    LET new_exposures == NextExposure(st.exposure_count) - st.exposure_count
        engaged == EngagedUsers(st)
        random  == Sample(user_pool, Min(new_exposures, Len(user_pool)))
    IN  IF simmap.present /\ Len(engaged) > 0
        THEN LET avail == AvailableUsers(st, SimilarUsers(engaged, simmap.m), user_pool)
                 n == Min(new_exposures, Cardinality(avail))
             IN  {SetToSeq(S) : S \in {T \in SUBSET avail : Cardinality(T) = n}}
        ELSE random

\* lines 218-222
ExpandedState(st, new_users) ==
    [st EXCEPT !.exposure_count = NextExposure(st.exposure_count),
               !.stage = "expanding",
               !.has_exposed_users = TRUE,
               !.exposed_users =
                   (IF st.has_exposed_users THEN st.exposed_users
                    ELSE SeqToSet(st.cohort)) \cup SeqToSet(new_users)]

\* lines 227-228
DecayedState(st) ==
    [st EXCEPT !.exposure_count = DecayedExposure(st.exposure_count),
               !.stage = "decaying"]

\* a state created on demand for an item that has none
viral_expansionCreatingState(vs, video_id, new_users) ==
    LET st == IF HasState(vs, video_id) THEN vs[video_id] ELSE NewState(0, <<>>)
    IN  IF Expands(st)
        THEN [ret |-> new_users,
              vs |-> PutState(vs, video_id, ExpandedState(st, new_users))]
        ELSE [ret |-> <<>>,
              vs |-> PutState(vs, video_id, DecayedState(st))]

\* viral_expansion for one selected list of new users
viral_expansion(vs, video_id, new_users) ==
    IF ~HasState(vs, video_id) THEN [ret |-> <<>>, vs |-> vs]
    ELSE IF Expands(vs[video_id])
         THEN [ret |-> new_users,
               vs |-> PutState(vs, video_id, ExpandedState(vs[video_id], new_users))]
         ELSE [ret |-> <<>>,
               vs |-> PutState(vs, video_id, DecayedState(vs[video_id]))]

\* ViralityEngine.update_from_interactions, lines 316-321
WithViralFactor(vs, video_id, performance_score) ==
    IF HasState(vs, video_id) /\ RLess(ExpansionThreshold, performance_score)
    THEN PutState(vs, video_id,
            [vs[video_id] EXCEPT
                !.has_viral_expansion_factor = TRUE,
                !.viral_expansion_factor =
                    IntTrunc(RMul(R(IF vs[video_id].has_viral_expansion_factor
                                    THEN vs[video_id].viral_expansion_factor
                                    ELSE 1, 1),
                                  ExpansionFactor))])
    ELSE vs

-----------------------------------------------------------------------------
(* Inputs of the cold-start specification                                  *)

\* a pool of as many users as the configured cohort size
BigPool == [i \in 1..InitialCohortSize |-> i]

UserPools == {<<>>, <<1>>, BigPool}

\* ten interactions with averages 0.9 / 0.6 / 0.1
BatchGood ==
    [i \in 1..10 |-> [user_id |-> i, watch_time |-> 9, completion_rate |-> 6,
                      skip |-> (i = 10)]]

\* a skipped view
BatchBad ==
    <<[user_id |-> 1, watch_time |-> 1, completion_rate |-> 1, skip |-> TRUE]>>

\* completed, but watch_time not above 0.5: no engaged user
BatchCompleted ==
    <<[user_id |-> 2, watch_time |-> 5, completion_rate |-> 10, skip |-> FALSE]>>

Batches == {<<>>, BatchGood, BatchBad, BatchCompleted}

NoSimMap == [present |-> FALSE, m |-> <<>>]

SimMaps ==
    {NoSimMap,
     [present |-> TRUE, m |-> [u \in {1, 2} |-> <<2, 3, 4>>]]}

CohortIdArgs == {0, 7}

BaselineArgs ==
    {DefaultBaseline,
     [watch_time_avg |-> 0, completion_rate |-> 0, skip_rate |-> 0]}

NoCall == [op |-> "none", video_id |-> 0]

\* the record of a call: what it was given, what the item's state was when it
\* was made, what it returned and whether it changed the engine's dictionaries
ColdCall(op, video_id, n_interactions, ret_users, ret_score, vs_after, cb_after) ==
    [op |-> op,
     video_id |-> video_id,
     n_interactions |-> n_interactions,
     had_state |-> HasState(video_states, video_id),
     pre_exposure |-> IF HasState(video_states, video_id)
                      THEN video_states[video_id].exposure_count ELSE 0,
     pre_score |-> IF HasState(video_states, video_id)
                   THEN video_states[video_id].performance_score ELSE RZero,
     pre_stage |-> IF HasState(video_states, video_id)
                   THEN video_states[video_id].stage ELSE "absent",
     ret_users |-> ret_users,
     ret_score |-> ret_score,
     unchanged |-> (vs_after = video_states /\ cb_after = cohort_baselines),
     error |-> "none"]

\* the users the item was exposed to before a call: its cohort and the users
\* earlier expansions returned (state["exposed_users"] once it exists)
ExposedBefore(vs, video_id) ==
    IF ~HasState(vs, video_id) THEN {}
    ELSE IF vs[video_id].has_exposed_users THEN vs[video_id].exposed_users
    ELSE SeqToSet(vs[video_id].cohort)

\* state.get("viral_expansion_factor", 1.0)
FactorOf(vs, video_id) ==
    IF HasState(vs, video_id) /\ vs[video_id].has_viral_expansion_factor
    THEN vs[video_id].viral_expansion_factor
    ELSE 1

\* the record of a call that was given a user pool
PoolCall(call, user_pool) ==
    [user_pool |-> user_pool,
     pre_exposed |-> ExposedBefore(video_states, call.video_id),
     pre_factor |-> FactorOf(video_states, call.video_id)] @@ call

-----------------------------------------------------------------------------
(* Operations of ColdStartEngine and ViralityEngine                        *)

InitialExposure(video_id, user_pool, cohort_id) ==
    /\ nops < MaxColdOps
    /\ \E cohort_size \in CohortSizeChoices :
       \E cohort \in Sample(user_pool, Min(cohort_size, Len(user_pool))) :
          LET cid == EffectiveCohortId(video_states, video_id, cohort_id)
              vs1 == PutState(video_states, video_id, NewState(cid, cohort))
              cb1 == BaselinesAfterExposure(cohort_baselines, cid)
          IN  /\ video_states' = vs1
              /\ cohort_baselines' = cb1
              /\ last' = PoolCall(ColdCall("initial_exposure", video_id, 0,
                                           cohort, RZero, vs1, cb1), user_pool)
    /\ nops' = nops + 1
    /\ UNCHANGED nonColdVars
    /\ UNCHANGED vf_meta

NormalizePerformance(video_id, interactions) ==
    /\ nops < MaxColdOps
    /\ LET r == normalize_performance(video_states, cohort_baselines,
                                      video_id, interactions)
       IN  /\ video_states' = r.vs
           /\ last' = ColdCall("normalize_performance", video_id,
                               Len(interactions), <<>>, r.ret,
                               r.vs, cohort_baselines)
    /\ nops' = nops + 1
    /\ UNCHANGED nonColdVars
    /\ UNCHANGED <<cohort_baselines, vf_meta>>

ViralExpansion(video_id, user_pool, simmap) ==
    /\ nops < MaxColdOps
    /\ \E new_users \in
            (IF HasState(video_states, video_id) /\ Expands(video_states[video_id])
             THEN NewUserChoices(video_states[video_id], user_pool, simmap)
             ELSE {<<>>}) :
          LET r == viral_expansion(video_states, video_id, new_users)
          IN  /\ video_states' = r.vs
              /\ last' = PoolCall(ColdCall("viral_expansion", video_id, 0, r.ret,
                                           RZero, r.vs, cohort_baselines),
                                  user_pool)
    /\ nops' = nops + 1
    /\ UNCHANGED nonColdVars
    /\ UNCHANGED <<cohort_baselines, vf_meta>>

UpdateCohortBaseline(cohort_id, baseline) ==
    /\ nops < MaxColdOps
    /\ cohort_baselines' = PutBaseline(cohort_baselines, cohort_id, baseline)
    /\ last' = [op |-> "update_cohort_baseline", video_id |-> 0]
    /\ nops' = nops + 1
    /\ UNCHANGED nonColdVars
    /\ UNCHANGED <<video_states, vf_meta>>

\* ViralityEngine.process_new_video
ViralityProcessNewVideo(video_id, user_pool) ==
    /\ nops < MaxColdOps
    /\ \E cohort_size \in CohortSizeChoices :
       \E cohort \in Sample(user_pool, Min(cohort_size, Len(user_pool))) :
          LET cid == EffectiveCohortId(video_states, video_id, 0)
              vs1 == PutState(video_states, video_id, NewState(cid, cohort))
              cb1 == BaselinesAfterExposure(cohort_baselines, cid)
          IN  /\ video_states' = vs1
              /\ cohort_baselines' = cb1
              /\ vf_meta' = [vf_meta EXCEPT ![video_id] =
                                [exposure_count |-> Len(cohort),
                                 viral_expansion_factor |-> 1]]
              /\ last' = PoolCall(ColdCall("process_new_video", video_id, 0,
                                           cohort, RZero, vs1, cb1), user_pool)
    /\ nops' = nops + 1
    /\ UNCHANGED nonColdVars

\* ViralityEngine.update_from_interactions
UpdateFromInteractions(video_id, interactions, user_pool, simmap) ==
    /\ nops < MaxColdOps
    /\ LET n   == normalize_performance(video_states, cohort_baselines,
                                        video_id, interactions)
           vs1 == WithViralFactor(n.vs, video_id, n.ret)
       IN  \E new_users \in
                (IF HasState(vs1, video_id) /\ Expands(vs1[video_id])
                 THEN NewUserChoices(vs1[video_id], user_pool, simmap)
                 ELSE {<<>>}) :
              LET r == viral_expansion(vs1, video_id, new_users)
              IN  /\ video_states' = r.vs
                  /\ last' = PoolCall(ColdCall("update_from_interactions",
                                               video_id, Len(interactions),
                                               r.ret, n.ret, r.vs,
                                               cohort_baselines), user_pool)
    /\ nops' = nops + 1
    /\ UNCHANGED nonColdVars
    /\ UNCHANGED <<cohort_baselines, vf_meta>>

ColdInit ==
    /\ video_states = <<>>
    /\ cohort_baselines = <<>>
    /\ vf_meta = [v \in ColdVideoIds |->
                    [exposure_count |-> 0, viral_expansion_factor |-> 1]]
    /\ arm_stats = <<>>
    /\ user_embeddings = <<>>
    /\ candidates = <<>>
    /\ inputs = <<>>
    /\ nops = 0
    /\ last = NoCall

ColdNext ==
    \/ \E v \in NewVideoIds, p \in UserPools, c \in CohortIdArgs :
          InitialExposure(v, p, c)
    \/ \E v \in ColdVideoIds, b \in Batches : NormalizePerformance(v, b)
    \/ \E v \in ColdVideoIds, p \in UserPools, m \in SimMaps :
          ViralExpansion(v, p, m)
    \/ \E c \in CohortIdArgs \ {0}, bl \in BaselineArgs :
          UpdateCohortBaseline(c, bl)
    \/ \E v \in NewVideoIds, p \in UserPools : ViralityProcessNewVideo(v, p)
    \/ \E v \in ColdVideoIds, b \in Batches, p \in UserPools, m \in SimMaps :
          UpdateFromInteractions(v, b, p, m)

SpecColdStart == ColdInit /\ [][ColdNext]_vars

-----------------------------------------------------------------------------
(* Properties of the cold-start engine                                     *)

\* the last call ran viral_expansion on an item that had a state
RanViralExpansion ==
    /\ last.op \in {"viral_expansion", "update_from_interactions"}
    /\ last.had_state

LastState == video_states[last.video_id]

\* C3 as stated: whenever viral_expansion runs with performance_score above
\* expansion_threshold, exposure_count strictly increases and the new value is
\* the old value times expansion_factor, for every reachable exposure_count
\* including 0 and 1.
C3_StrictGrowthEverywhere ==
    (RanViralExpansion /\ Expands(LastState)) =>
        /\ LastState.exposure_count > last.pre_exposure
        /\ LastState.exposure_count = 2 * last.pre_exposure

\* C3 amended: whenever viral_expansion runs with performance_score above
\* expansion_threshold, the new exposure_count is int(old * expansion_factor)
\* = 2 * old and the stage is 'expanding', whatever number of users was
\* returned; the count strictly increases when the old count is at least 1
\* and stays 0 when the old count is 0.
C3_GrowthByFactor ==
    (RanViralExpansion /\ Expands(LastState)) =>
        /\ LastState.exposure_count = 2 * last.pre_exposure
        /\ LastState.stage = "expanding"
        /\ (last.pre_exposure >= 1 => LastState.exposure_count > last.pre_exposure)
        /\ (last.pre_exposure = 0 => LastState.exposure_count = 0)

\* C3 witness: a second successive expansion, from a count of at least 1,
\* that returned fewer users than the count grew by
C3_Witness ==
    /\ last.op = "viral_expansion"
    /\ last.had_state
    /\ Expands(LastState)
    /\ last.pre_stage = "expanding"
    /\ last.pre_exposure >= 1
    /\ LastState.exposure_count = 2 * last.pre_exposure
    /\ Len(last.ret_users) < LastState.exposure_count - last.pre_exposure

\* C4 as stated: whenever viral_expansion runs with performance_score at or
\* below expansion_threshold, exposure_count strictly decreases to the old
\* value times decay_factor, the stage becomes 'decaying' and no users are
\* returned, for every reachable exposure_count including 0.
C4_StrictDecayEverywhere ==
    (RanViralExpansion /\ ~Expands(LastState)) =>
        /\ LastState.exposure_count < last.pre_exposure
        /\ 10 * LastState.exposure_count = 9 * last.pre_exposure
        /\ LastState.stage = "decaying"
        /\ last.ret_users = <<>>

\* C4 amended: whenever viral_expansion runs with performance_score at or
\* below expansion_threshold, the new exposure_count is int(old * decay_factor)
\* (0.9 * old with the fraction dropped), the stage becomes 'decaying' and no
\* users are returned; the count strictly decreases when the old count is at
\* least 1 and stays 0 when the old count is 0.
C4_DecayTruncated ==
    (RanViralExpansion /\ ~Expands(LastState)) =>
        /\ 10 * LastState.exposure_count <= 9 * last.pre_exposure
        /\ 10 * LastState.exposure_count > 9 * last.pre_exposure - 10
        /\ LastState.stage = "decaying"
        /\ last.ret_users = <<>>
        /\ (last.pre_exposure >= 1 => LastState.exposure_count < last.pre_exposure)
        /\ (last.pre_exposure = 0 => LastState.exposure_count = 0)

\* C4 witness: a decay that truncates, from a count of 225 to int(202.5) = 202
C4_Witness ==
    /\ last.op = "viral_expansion"
    /\ last.had_state
    /\ ~Expands(LastState)
    /\ last.pre_exposure = 225
    /\ LastState.exposure_count = 202
    /\ LastState.stage = "decaying"

\* sums of the sample stored by the last normalize_performance
StoredWatch ==
    SumSeq([i \in 1..Len(LastState.interactions) |->
              LastState.interactions[i].watch_time])

StoredCompletion ==
    SumSeq([i \in 1..Len(LastState.interactions) |->
              LastState.interactions[i].completion_rate])

StoredSkips ==
    Cardinality({i \in 1..Len(LastState.interactions) :
                   LastState.interactions[i].skip})

LastBaseline == cohort_baselines[LastState.cohort_id]

\* C8: normalize_performance returns 0.4*(avg watch / baseline watch) +
\* 0.4*(avg completion / baseline completion) - 0.2*(avg skip / baseline skip)
\* and stores it; a 500-user cohort with averages 0.9, 0.6, 0.1 against the
\* default baselines gets performance_score 1.47, and the viral_expansion that
\* follows takes the expansion branch and doubles exposure_count to 1000.
C8_NormalizedScore ==
    /\ (/\ last.op = "normalize_performance"
        /\ last.had_state
        /\ last.n_interactions > 0
        /\ LastBaseline.watch_time_avg > 0
        /\ LastBaseline.completion_rate > 0
        /\ LastBaseline.skip_rate > 0) =>
          LET n  == Len(LastState.interactions)
              bw == LastBaseline.watch_time_avg
              bc == LastBaseline.completion_rate
              bs == LastBaseline.skip_rate
          IN  /\ n = last.n_interactions
              /\ LastState.performance_score = last.ret_score
              \* ret = 4/10 * W/(n*bw) + 4/10 * C/(n*bc) - 2/10 * 10*S/(n*bs)
              /\ last.ret_score[1] * (10 * n * bw * bc * bs) =
                 last.ret_score[2] * (4 * StoredWatch * bc * bs
                                      + 4 * StoredCompletion * bw * bs
                                      - 20 * StoredSkips * bw * bc)
    /\ (/\ last.op = "normalize_performance"
        /\ last.had_state
        /\ last.n_interactions > 0
        /\ LastBaseline = [watch_time_avg |-> 5, completion_rate |-> 3,
                           skip_rate |-> 4]
        /\ StoredWatch * 10 = 9 * 10 * last.n_interactions
        /\ StoredCompletion * 10 = 6 * 10 * last.n_interactions
        /\ StoredSkips * 10 = last.n_interactions) =>
          LastState.performance_score = <<147, 100>>
    /\ (/\ last.op = "viral_expansion"
        /\ last.had_state
        /\ last.pre_score = <<147, 100>>
        /\ last.pre_exposure = 500) =>
          /\ LastState.exposure_count = 1000
          /\ LastState.stage = "expanding"

\* C8 witness: the scenario itself, a cohort of 500 expanded to 1000 on the
\* score 1.47
C8_Witness ==
    /\ last.op = "viral_expansion"
    /\ last.had_state
    /\ Len(LastState.cohort) = 500
    /\ last.pre_exposure = 500
    /\ last.pre_score = <<147, 100>>
    /\ LastState.exposure_count = 1000

\* C10: for an item without ColdStartState, normalize_performance,
\* viral_expansion and update_from_interactions raise nothing, return the
\* empty result and leave video_states and cohort_baselines as they were.
C10_AbsentStateEmptyResult ==
    (/\ last.op \in {"normalize_performance", "viral_expansion",
                     "update_from_interactions"}
     /\ ~last.had_state) =>
        /\ last.error = "none"
        /\ last.ret_users = <<>>
        /\ last.ret_score = RZero
        /\ last.unchanged
        /\ ~HasState(video_states, last.video_id)

\* C10 witness: update_from_interactions with a non-empty batch on an item
\* without state, while another item has one
C10_Witness ==
    /\ last.op = "update_from_interactions"
    /\ ~last.had_state
    /\ last.n_interactions > 0
    /\ video_states # <<>>
    /\ last.ret_users = <<>>

-----------------------------------------------------------------------------
(* Ranking scores.  A ranking_score is a float: either +inf (the bandit's  *)
(* score of an arm without statistics) or a finite number.  The bandit's   *)
(* finite scores are e + sqrt(u) with e and u rational, so a finite score  *)
(* is kept as that pair; a score that involves no square root has u = 0.   *)

Plain(x) == [inf |-> FALSE, e |-> x, u |-> RZero]

Infinite == [inf |-> TRUE, e |-> RZero, u |-> RZero]

\* sqrt(u1) - sqrt(u2) <= d, for rationals u1, u2 >= 0 and d
SqrtDiffLeq(u1, u2, d) ==
    LET s == RSub(RAdd(u1, u2), RMul(d, d))      \* u1 + u2 - d^2
        p == RMul(<<4, 1>>, RMul(u1, u2))        \* (2 sqrt(u1 u2))^2
    IN  IF RLeq(u1, u2)
        THEN \/ RLeq(RZero, d)
             \/ (RLeq(RZero, s) /\ RLeq(p, RMul(s, s)))
        ELSE /\ RLess(RZero, d)
             /\ (RLeq(s, RZero) \/ RLeq(RMul(s, s), p))

\* the largest r with r * r <= n, for an integer n >= 0, searched in lo..hi
RECURSIVE ISqrtIn(_, _, _)
ISqrtIn(n, lo, hi) ==
    IF lo >= hi THEN lo
    ELSE LET mid == (lo + hi + 1) \div 2
         IN  IF mid * mid <= n THEN ISqrtIn(n, mid, hi) ELSE ISqrtIn(n, lo, mid - 1)

SqrtScale == 1000       \* square roots are bracketed to within 1 / SqrtScale

\* floor(sqrt(u) * SqrtScale) for a rational u >= 0: sqrt(u) lies in
\* [SqrtFloor(u) / SqrtScale, (SqrtFloor(u) + 1) / SqrtScale)
SqrtFloor(u) == ISqrtIn((u[1] * SqrtScale * SqrtScale) \div u[2], 0, 46340)

\* a / b <= c / d for b > 0 and d > 0, by comparing the integer parts and then
\* the reciprocals of the fractional parts: no product of a numerator and a
\* denominator is formed
RECURSIVE FracLeq(_, _, _, _)
FracLeq(a, b, c, d) ==
    IF a \div b # c \div d THEN a \div b < c \div d
    ELSE IF a % b = 0 THEN TRUE
    ELSE IF c % d = 0 THEN FALSE
    ELSE FracLeq(d, c % d, b, a % b)

\* x <= y as floats.  Equal radicands leave the rational parts to compare; else
\* the brackets of the square roots decide when they are apart, and the exact
\* test by squaring decides when they are not.
ScoreLeq(x, y) ==
    IF y.inf THEN TRUE
    ELSE IF x.inf THEN FALSE
    ELSE IF x.u = y.u THEN FracLeq(x.e[1], x.e[2], y.e[1], y.e[2])
    ELSE LET xlo == RAdd(x.e, <<SqrtFloor(x.u), SqrtScale>>)
             ylo == RAdd(y.e, <<SqrtFloor(y.u), SqrtScale>>)
             step == <<1, SqrtScale>>
         IN  IF RLeq(RAdd(xlo, step), ylo) THEN TRUE
             ELSE IF RLeq(RAdd(ylo, step), xlo) THEN FALSE
             ELSE SqrtDiffLeq(x.u, y.u, RSub(y.e, x.e))

ScoreLess(x, y) == ~ScoreLeq(y, x)

\* x * f for a rational factor f > 0
ScoreTimes(x, f) ==
    IF x.inf THEN x
    ELSE [inf |-> FALSE, e |-> RMul(x.e, f), u |-> RMul(x.u, RMul(f, f))]

\* list.sort(key=lambda x: x.ranking_score, reverse=True): stable, so candidates
\* of equal score keep their order.  Insertion of c behind every entry whose
\* score is not below c's.
RECURSIVE InsertDesc(_, _)
InsertDesc(sorted, c) ==
    IF sorted = <<>> THEN <<c>>
    ELSE IF ScoreLess(Head(sorted).ranking_score, c.ranking_score)
         THEN <<c>> \o sorted
         ELSE <<Head(sorted)>> \o InsertDesc(Tail(sorted), c)

RECURSIVE SortLoop(_, _)
SortLoop(cands, sorted) ==
    IF cands = <<>> THEN sorted
    ELSE SortLoop(Tail(cands), InsertDesc(sorted, Head(cands)))

SortDescending(cands) == SortLoop(cands, <<>>)

-----------------------------------------------------------------------------
(* Vectors of the content_embeddings dictionary and cosine similarity      *)

Dot(a, b) == SumSeq([i \in 1..Len(a) |-> a[i] * b[i]])

NormSq(a) == Dot(a, a)

\* np.dot(a, b) / (norm(a) * norm(b)) > num / den, for 0 < num < den.
\* A zero vector makes the quotient NaN, and every comparison with NaN is false.
CosineAbove(a, b, num, den) ==
    /\ NormSq(a) * NormSq(b) > 0
    /\ Dot(a, b) > 0
    /\ den * den * Dot(a, b) * Dot(a, b) > num * num * NormSq(a) * NormSq(b)

\* np.dot(a, b) / (norm(a) * norm(b)) < num / den, for 0 < num < den
CosineBelow(a, b, num, den) ==
    /\ NormSq(a) * NormSq(b) > 0
    /\ \/ Dot(a, b) <= 0
       \/ den * den * Dot(a, b) * Dot(a, b) < num * num * NormSq(a) * NormSq(b)

\* s[-n:] of Python, n > 0
LastN(s, n) == IF Len(s) <= n THEN s ELSE SubSeq(s, Len(s) - n + 1, Len(s))

\* s[:n] of Python: a negative n counts from the end of s
FirstN(s, n) ==
    IF n < 0 THEN SubSeq(s, 1, Max(0, Len(s) + n))
    ELSE IF Len(s) <= n THEN s ELSE SubSeq(s, 1, n)

-----------------------------------------------------------------------------
(* Failure-mode handler: diversity (src/lib/utils/failure_modes.py)        *)

TemporalWindow == 20        \* recent_interactions[-20:]

MaxPerCategory == 3         \* max_per_category

NoCategory == 0             \* video_features.category is None

\* the comparison made with the embedding accepted last only
IsSimilarToLastSeen(candidate_emb, seen_embeddings) ==
    /\ Len(seen_embeddings) > 0
    /\ CosineAbove(candidate_emb, seen_embeddings[Len(seen_embeddings)], 7, 10)

\* sim > min_similarity, min_similarity = 0.7, against every accepted embedding
IsSimilarToSeen(candidate_emb, seen_embeddings) ==
    \E k \in 1..Len(seen_embeddings) :
        CosineAbove(candidate_emb, seen_embeddings[k], 7, 10)

\* seen_embeddings after a candidate with an embedding was examined
SeenAfterOnlyCurrent(seen_embeddings, candidate_emb, accepted) == <<candidate_emb>>

SeenAfter(seen_embeddings, candidate_emb, accepted) ==
    IF accepted THEN Append(seen_embeddings, candidate_emb) ELSE seen_embeddings

RECURSIVE TemporalLoop(_, _, _, _, _)
TemporalLoop(cands, recent_video_ids, content_embeddings, filtered, seen_embeddings) ==
    IF cands = <<>> THEN filtered
    ELSE LET candidate == Head(cands)
             rest      == Tail(cands)
         IN  IF candidate.video_id \in recent_video_ids
             THEN TemporalLoop(rest, recent_video_ids, content_embeddings,
                               filtered, seen_embeddings)
             ELSE IF candidate.video_id \in DOMAIN content_embeddings
             THEN LET candidate_emb == content_embeddings[candidate.video_id]
                      is_similar    == IsSimilarToSeen(candidate_emb, seen_embeddings)
                  IN  TemporalLoop(rest, recent_video_ids, content_embeddings,
                                   IF is_similar THEN filtered
                                   ELSE Append(filtered, candidate),
                                   SeenAfter(seen_embeddings, candidate_emb,
                                             ~is_similar))
             ELSE TemporalLoop(rest, recent_video_ids, content_embeddings,
                               Append(filtered, candidate), seen_embeddings)

enforce_temporal_diversity(cands, recent_interactions, content_embeddings) ==
    LET recent == LastN(recent_interactions, TemporalWindow)
        recent_video_ids == {recent[i].video_id : i \in 1..Len(recent)}
    IN  TemporalLoop(cands, recent_video_ids, content_embeddings, <<>>, <<>>)

\* a counter that tells only whether the category was counted before
CountOfSeen(category_counts, category) ==
    IF category \in DOMAIN category_counts THEN 1 ELSE 0

\* category_counts[category] of the Counter: 0 for a category never counted
CountOf(category_counts, category) ==
    IF category \in DOMAIN category_counts THEN category_counts[category] ELSE 0

RECURSIVE CategoryLoop(_, _, _)
CategoryLoop(cands, category_counts, filtered) ==
    IF cands = <<>> THEN filtered
    ELSE LET candidate == Head(cands)
             category  == candidate.category
         IN  IF category = NoCategory
             THEN CategoryLoop(Tail(cands), category_counts,
                               Append(filtered, candidate))
             ELSE IF CountOf(category_counts, category) < MaxPerCategory
             THEN CategoryLoop(Tail(cands),
                               (category :> CountOf(category_counts, category) + 1)
                                   @@ category_counts,
                               Append(filtered, candidate))
             ELSE CategoryLoop(Tail(cands), category_counts, filtered)

enforce_category_diversity(cands) == CategoryLoop(cands, <<>>, <<>>)

enforce_diversity(cands, user_history, content_embeddings) ==
    enforce_category_diversity(
        enforce_temporal_diversity(cands, user_history, content_embeddings))

-----------------------------------------------------------------------------
(* Inputs and specification of the diversity stage                         *)

MaxDivLen == 4      \* longest candidate list given to enforce_diversity
MaxDivOps == 2      \* consecutive applications of enforce_diversity

DivVideoIds == 1..6

\* content_embeddings: video 5 has no entry, video 6 has a zero vector
DivEmbeddings ==
    (1 :> <<1, 0>>) @@ (2 :> <<2, 1>>) @@ (3 :> <<2, -1>>) @@ (4 :> <<0, 1>>)
        @@ (6 :> <<0, 0>>)

\* video_features.category of each video
DivCategory ==
    (1 :> 1) @@ (2 :> 2) @@ (3 :> NoCategory) @@ (4 :> 1) @@ (5 :> 1) @@ (6 :> 1)

DivCandidate(v) ==
    [video_id |-> v, category |-> DivCategory[v], ranking_score |-> Plain(<<v, 1>>)]

DivCandidateLists ==
    UNION {[1..n -> {DivCandidate(v) : v \in DivVideoIds}] : n \in 0..MaxDivLen}

\* a history longer than the window: its first entry has left the last 20
LongHistory == [i \in 1..(TemporalWindow + 1) |->
                  [video_id |-> IF i = 1 THEN 1 ELSE 9]]

DivHistories == {<<>>, <<[video_id |-> 4]>>, LongHistory}

DivInit ==
    /\ video_states = <<>>
    /\ cohort_baselines = <<>>
    /\ vf_meta = <<>>
    /\ arm_stats = <<>>
    /\ user_embeddings = <<>>
    /\ candidates \in DivCandidateLists
    /\ inputs \in [user_history : DivHistories, content_embeddings : {DivEmbeddings}]
    /\ nops = 0
    /\ last = NoCall

\* FailureModeHandler.enforce_diversity applied to the current list; temporal is
\* what its first step, enforce_temporal_diversity, handed to the second
EnforceDiversity ==
    /\ nops < MaxDivOps
    /\ candidates' = enforce_diversity(candidates, inputs.user_history,
                                       inputs.content_embeddings)
    /\ last' = [op |-> "enforce_diversity", video_id |-> 0,
                input |-> candidates,
                temporal |-> enforce_temporal_diversity(candidates, inputs.user_history,
                                                        inputs.content_embeddings),
                original |-> IF last.op = "enforce_diversity"
                             THEN last.original ELSE candidates,
                pass |-> nops + 1]
    /\ nops' = nops + 1
    /\ UNCHANGED <<engineVars, inputs>>

DivNext == EnforceDiversity

SpecDiversity == DivInit /\ [][DivNext]_vars

-----------------------------------------------------------------------------
(* Properties of the diversity stage                                       *)

\* C5: enforce_diversity is idempotent: applied to its own output, with the same
\* history and the same embedding map, it returns that list unchanged (the same
\* candidates in the same order)
C5_EnforceDiversityIdempotent ==
    (last.op = "enforce_diversity" /\ last.pass >= 2) => candidates = last.input

\* C5 witness: a second application, to the output of a first application that
\* dropped a near-duplicate (video 2 against video 1) and kept the other three
C5_Witness ==
    /\ last.op = "enforce_diversity"
    /\ last.pass = 2
    /\ Len(last.original) = 4
    /\ last.original[1].video_id = 1
    /\ last.original[2].video_id = 2
    /\ Len(candidates) = 3
    /\ candidates[1].video_id = 1

\* the category cap acted in the first application: four candidates of category 1
\* survived the temporal filter and the fourth was dropped
C5_CapWitness ==
    /\ last.op = "enforce_diversity"
    /\ last.pass = 2
    /\ [i \in 1..Len(last.original) |-> last.original[i].video_id] = <<1, 4, 5, 6>>
    /\ [i \in 1..Len(candidates) |-> candidates[i].video_id] = <<1, 4, 5>>

-----------------------------------------------------------------------------
(* Failure-mode handler: spam (src/lib/utils/failure_modes.py)             *)

BotMinInteractions == 5             \* _has_bot_pattern: len(interactions) < 5
FarmingMinInteractions == 10        \* _has_engagement_farming: len(interactions) < 10
CoordinatedThreshold == 10          \* coordinated_threshold
HourSeconds == 3600                 \* interaction.timestamp // 3600

Skips(interactions) ==
    Cardinality({i \in 1..Len(interactions) : interactions[i].skip})

Likes(interactions) ==
    Cardinality({i \in 1..Len(interactions) : interactions[i].like})

Comments(interactions) ==
    Cardinality({i \in 1..Len(interactions) : interactions[i].comment})

Shares(interactions) ==
    Cardinality({i \in 1..Len(interactions) : interactions[i].share})

\* the two tests of _has_bot_pattern without the minimum of 5 interactions
has_bot_pattern_any_length(interactions) ==
    LET n == Len(interactions)
        watch_times == {interactions[i].watch_time : i \in 1..n}
    IN  \/ (100 * Skips(interactions) < 5 * n
               /\ 100 * Likes(interactions) > 95 * n)
        \/ 10 * Cardinality(watch_times) < n

\* skip_rate < 0.05 and like_rate > bot_threshold (0.95), or fewer than 10% of the
\* watch times distinct
has_bot_pattern(interactions) ==
    LET n == Len(interactions)
        watch_times == {interactions[i].watch_time : i \in 1..n}
    IN  IF n < BotMinInteractions THEN FALSE
        ELSE \/ (100 * Skips(interactions) < 5 * n
                    /\ 100 * Likes(interactions) > 95 * n)
             \/ 10 * Cardinality(watch_times) < n

\* like_rate > 0.8 and comment_rate < 0.1 and share_rate < 0.1
has_engagement_farming(interactions) ==
    LET n == Len(interactions)
    IN  IF n < FarmingMinInteractions THEN FALSE
        ELSE /\ 10 * Likes(interactions) > 8 * n
             /\ 10 * Comments(interactions) < n
             /\ 10 * Shares(interactions) < n

\* an hour with at least coordinated_threshold interactions made by fewer than
\* half as many users
has_coordinated_activity(interactions) ==
    LET n == Len(interactions)
        windows == {interactions[i].timestamp \div HourSeconds : i \in 1..n}
        InWindow(w) == {i \in 1..n : interactions[i].timestamp \div HourSeconds = w}
    IN  IF n < CoordinatedThreshold THEN FALSE
        ELSE \E w \in windows :
                /\ Cardinality(InWindow(w)) >= CoordinatedThreshold
                /\ 2 * Cardinality({interactions[i].user_id : i \in InWindow(w)})
                       < Cardinality(InWindow(w))

\* EngagementFarmingDetector.detect: spam_score, in hundredths
\* (0.33 + 0.33 = 0.66, 0.33 + 0.34 = 0.67 and 0.33 + 0.33 + 0.34 = 1.0 as floats)
detect(interactions) ==
    IF Len(interactions) = 0 THEN RZero
    ELSE R((IF has_bot_pattern(interactions) THEN 33 ELSE 0)
             + (IF has_engagement_farming(interactions) THEN 33 ELSE 0)
             + (IF has_coordinated_activity(interactions) THEN 34 ELSE 0), 100)

PenaltyFactor == <<1, 2>>           \* penalty_factor = 0.5

\* 1 - spam_score, the factor of a penalty that ignores penalty_factor
PenaltyWhole(spam_score) == RSub(ROne, spam_score)

\* 1 - spam_score * penalty_factor
Penalty(spam_score) == RSub(ROne, RMul(spam_score, PenaltyFactor))

Penalised(candidate, video_interactions) ==
    IF candidate.video_id \in DOMAIN video_interactions
          /\ RLess(RZero, detect(video_interactions[candidate.video_id]))
    THEN [candidate EXCEPT !.ranking_score =
            ScoreTimes(@, Penalty(detect(video_interactions[candidate.video_id])))]
    ELSE candidate

\* the penalties without the re-sort
suppress_spam_unsorted(cands, video_interactions) ==
    [i \in 1..Len(cands) |-> Penalised(cands[i], video_interactions)]

\* FailureModeHandler.suppress_spam: the penalties, then the re-sort
suppress_spam(cands, video_interactions) ==
    SortDescending([i \in 1..Len(cands) |-> Penalised(cands[i], video_interactions)])

-----------------------------------------------------------------------------
(* Inputs and specification of the spam stage                              *)

SpamSamples == 20   \* interactions in a batch of likes
MaxSpamOps == 1     \* applications of suppress_spam

SpamVideoIds == 1..2

\* a batch in which every interaction is a like and none is a skip; the other
\* fields vary: how many carry a comment or a share, whether the users, the
\* watch times and the hours differ
LikeBatch(n_comments, n_shares, same_user, same_watch, same_hour) ==
    [i \in 1..SpamSamples |->
        [user_id    |-> IF same_user THEN 1 + (i % 3) ELSE i,
         skip       |-> FALSE,
         like       |-> TRUE,
         comment    |-> i <= n_comments,
         share      |-> i <= n_shares,
         watch_time |-> IF same_watch THEN 5 ELSE i,
         timestamp  |-> IF same_hour THEN i ELSE i * HourSeconds]]

LikeBatches ==
    {LikeBatch(c, s, u, w, h) :
        c \in {0, 2}, s \in {0, 2}, u \in BOOLEAN, w \in BOOLEAN, h \in BOOLEAN}

\* an ordinary audience: every third interaction a skip, every second a like
HonestBatch ==
    [i \in 1..SpamSamples |->
        [user_id |-> i, skip |-> (i % 3 = 0), like |-> (i % 2 = 0),
         comment |-> (i % 5 = 0), share |-> (i % 7 = 0),
         watch_time |-> i, timestamp |-> i * HourSeconds]]

\* four likes: too few for any signal
SmallBatch == [i \in 1..4 |-> LikeBatch(0, 0, TRUE, TRUE, TRUE)[i]]

SpamBatches == LikeBatches \cup {HonestBatch, SmallBatch, <<>>}

VideoInteractionMaps ==
    {<<>>} \cup {(1 :> b) : b \in SpamBatches}
           \cup {(1 :> b) @@ (2 :> HonestBatch) : b \in LikeBatches}

SpamScores == {<<-2, 1>>, <<0, 1>>, <<3, 1>>, <<5, 1>>}

SpamCandidate(v, s) == [video_id |-> v, category |-> NoCategory, ranking_score |-> Plain(s)]

SpamCandidateLists ==
    {<<>>} \cup {<<SpamCandidate(1, s1), SpamCandidate(2, s2)>> :
                    s1 \in SpamScores, s2 \in SpamScores}

SpamInit ==
    /\ video_states = <<>>
    /\ cohort_baselines = <<>>
    /\ vf_meta = <<>>
    /\ arm_stats = <<>>
    /\ user_embeddings = <<>>
    /\ candidates \in SpamCandidateLists
    /\ inputs \in [video_interactions : VideoInteractionMaps]
    /\ nops = 0
    /\ last = NoCall

\* FailureModeHandler.suppress_spam applied to the current list
SuppressSpam ==
    /\ nops < MaxSpamOps
    /\ candidates' = suppress_spam(candidates, inputs.video_interactions)
    /\ last' = [op |-> "suppress_spam", video_id |-> 0, input |-> candidates]
    /\ nops' = nops + 1
    /\ UNCHANGED <<engineVars, inputs>>

SpamNext == SuppressSpam

SpecSpam == SpamInit /\ [][SpamNext]_vars

-----------------------------------------------------------------------------
(* Properties of the spam stage                                            *)

\* every interaction of the batch is a like and none is a skip
AllLikesNoSkips(interactions) ==
    /\ Len(interactions) = SpamSamples
    /\ \A i \in 1..Len(interactions) : interactions[i].like /\ ~interactions[i].skip

\* the candidates of the last suppress_spam call whose batch is all likes
LikedCandidates ==
    {i \in 1..Len(last.input) :
        /\ last.input[i].video_id \in DOMAIN inputs.video_interactions
        /\ AllLikesNoSkips(inputs.video_interactions[last.input[i].video_id])}

\* the score the candidate of the i-th input entry has in the returned list
ScoreAfter(i) ==
    LET j == CHOOSE k \in 1..Len(candidates) :
                candidates[k].video_id = last.input[i].video_id
    IN  candidates[j].ranking_score

SpamScoreOf(i) == detect(inputs.video_interactions[last.input[i].video_id])

\* C6 as stated: for a batch of 20 likes without a skip, spam_score >= 0.33 and
\* suppress_spam leaves the ranking_score at most 0.67 times the score before
C6_ScoreCutToTwoThirds ==
    last.op = "suppress_spam" =>
        \A i \in LikedCandidates :
            /\ RLeq(<<33, 100>>, SpamScoreOf(i))
            /\ ScoreLeq(ScoreAfter(i),
                        ScoreTimes(last.input[i].ranking_score, <<67, 100>>))

\* C6 amended: for a batch of 20 likes without a skip, spam_score >= 0.33 and
\* suppress_spam multiplies the ranking_score by 1 - spam_score * 0.5, which for a
\* score that is not negative leaves at most 0.835 times the score before; it
\* leaves at most 0.67 times the score only when a second signal fires as well
C6_ScoreCutByHalfSpamScore ==
    last.op = "suppress_spam" =>
        \A i \in LikedCandidates :
            LET pre == last.input[i].ranking_score
                factor == RSub(ROne, RMul(SpamScoreOf(i), <<1, 2>>))
            IN  /\ RLeq(<<33, 100>>, SpamScoreOf(i))
                /\ ScoreAfter(i) = ScoreTimes(pre, factor)
                /\ (RLeq(RZero, pre.e) =>
                       ScoreLeq(ScoreAfter(i), ScoreTimes(pre, <<835, 1000>>)))
                /\ (RLeq(<<66, 100>>, SpamScoreOf(i)) /\ RLeq(RZero, pre.e) =>
                       ScoreLeq(ScoreAfter(i), ScoreTimes(pre, <<67, 100>>)))

\* C6 witness: a candidate of score 5 whose 20 likes raise only the bot signal
\* (comments present, users and hours spread) comes out at 5 * 0.835 = 4.175
C6_Witness ==
    /\ last.op = "suppress_spam"
    /\ \E i \in LikedCandidates :
          /\ SpamScoreOf(i) = <<33, 100>>
          /\ last.input[i].ranking_score = Plain(<<5, 1>>)
          /\ ScoreAfter(i) = Plain(<<167, 40>>)

\* all three signals: the score is halved and the candidate falls behind the other
C6_HalvedWitness ==
    /\ last.op = "suppress_spam"
    /\ Len(last.input) = 2
    /\ 1 \in LikedCandidates
    /\ SpamScoreOf(1) = ROne
    /\ last.input[1].ranking_score = Plain(<<5, 1>>)
    /\ last.input[2].ranking_score = Plain(<<3, 1>>)
    /\ candidates[1].video_id = 2
    /\ candidates[2].ranking_score = Plain(<<5, 2>>)

-----------------------------------------------------------------------------
(* Novelty injector (src/lib/ranking/exploration.py)                       *)

NoveltyRate == <<15, 100>>              \* novelty_rate = 0.15

HistoryWindow == 50                     \* user_history[-50:]

positions == <<5, 10, 15, 20, 25>>

\* int(session_length * self.novelty_rate)
NoveltyBudget(session_length) == IntTrunc(RMul(<<session_length, 1>>, NoveltyRate))

\* the embeddings of the last 50 interactions whose video has one
HistoryEmbeddings(user_history, content_embeddings) ==
    LET recent == LastN(user_history, HistoryWindow)
        known  == SelectSeq(recent, LAMBDA x : x.video_id \in DOMAIN content_embeddings)
    IN  [i \in 1..Len(known) |-> content_embeddings[known[i].video_id]]

\* np.mean(history_embeddings, axis=0) times the number of embeddings: the sum.
\* The cosine against the centroid is the cosine against the sum.
CentroidSum(history_embeddings) ==
    [k \in 1..Len(history_embeddings[1]) |->
        SumSeq([i \in 1..Len(history_embeddings) |-> history_embeddings[i][k]])]

\* similarity < min_similarity, min_similarity = 0.5
IsNovel(candidate, history_centroid, content_embeddings) ==
    /\ candidate.video_id \in DOMAIN content_embeddings
    /\ CosineBelow(content_embeddings[candidate.video_id], history_centroid, 1, 2)

\* list.insert(position, x) for position <= len(list): x gets index position
InsertAtReplacing(s, position, x) ==
    SubSeq(s, 1, position) \o <<x>> \o SubSeq(s, position + 2, Len(s))

InsertAt(s, position, x) ==
    SubSeq(s, 1, position) \o <<x>> \o SubSeq(s, position + 1, Len(s))

\* the insertion loop; i counts the novel candidates from 0.  Returns the list and
\* the turns that inserted, each with the position it inserted at.
RECURSIVE InjectLoop(_, _, _, _)
InjectLoop(ranked_candidates, novel_candidates, i, log) ==
    IF i >= Len(novel_candidates)
    THEN [ranked |-> ranked_candidates, log |-> log]
    ELSE LET position == positions[(i % Len(positions)) + 1]
         IN  IF position < Len(ranked_candidates)
             THEN InjectLoop(InsertAt(ranked_candidates, position,
                                      novel_candidates[i + 1]),
                             novel_candidates, i + 1,
                             Append(log, [turn |-> i, position |-> position]))
             ELSE InjectLoop(ranked_candidates, novel_candidates, i + 1, log)

\* the candidates inject_novelty takes as novel, before the cut to the budget
NovelCandidates(ranked_candidates, user_history, content_embeddings) ==
    LET history_embeddings == HistoryEmbeddings(user_history, content_embeddings)
    IN  IF Len(history_embeddings) = 0 THEN <<>>
        ELSE LET history_centroid == CentroidSum(history_embeddings)
             IN  SelectSeq(ranked_candidates,
                           LAMBDA c : IsNovel(c, history_centroid, content_embeddings))

\* NoveltyInjector.inject_novelty, with the log of its insertions
inject_novelty_logged(ranked_candidates, user_history, content_embeddings, session_length) ==
    LET novelty_budget == NoveltyBudget(session_length)
        history_embeddings == HistoryEmbeddings(user_history, content_embeddings)
    IN  IF novelty_budget = 0 \/ Len(history_embeddings) = 0
        THEN [ranked |-> ranked_candidates, log |-> <<>>]
        ELSE InjectLoop(ranked_candidates,
                        FirstN(NovelCandidates(ranked_candidates, user_history,
                                               content_embeddings),
                               novelty_budget),
                        0, <<>>)

inject_novelty(ranked_candidates, user_history, content_embeddings, session_length) ==
    inject_novelty_logged(ranked_candidates, user_history, content_embeddings,
                          session_length).ranked

-----------------------------------------------------------------------------
(* Inputs and specification of the novelty stage                           *)

MaxNovLen == 16     \* longest candidate list given to inject_novelty
MaxNovOps == 1      \* applications of inject_novelty

NovVideoIds == 1..(MaxNovLen + 1)

\* the videos of the history: 101 points along (1, 0), 102 far the other way
HistoryVideoEmbeddings == (101 :> <<1, 0>>) @@ (102 :> <<-100, 0>>)

\* every candidate away from the history
AllNovelEmbeddings ==
    [v \in NovVideoIds |-> <<-1, 0>>] @@ HistoryVideoEmbeddings

\* every odd candidate away from the history, every even one along it
OddNovelEmbeddings ==
    [v \in NovVideoIds |-> IF v % 2 = 1 THEN <<-1, 1>> ELSE <<2, 1>>]
        @@ HistoryVideoEmbeddings

\* candidates 1 and 2 away from the history, 3 without an embedding, 4 with a zero
\* vector, the others along the history
TwoNovelEmbeddings ==
    [v \in NovVideoIds \ {3} |->
        IF v <= 2 THEN <<0, 1>> ELSE IF v = 4 THEN <<0, 0>> ELSE <<1, 0>>]
        @@ HistoryVideoEmbeddings

NovEmbeddingMaps == {AllNovelEmbeddings, OddNovelEmbeddings, TwoNovelEmbeddings}

NovCandidate(v) ==
    [video_id |-> v, category |-> NoCategory, ranking_score |-> Plain(<<100 - v, 1>>)]

NovCandidateLists == {[i \in 1..n |-> NovCandidate(i)] : n \in 0..MaxNovLen}

\* 51 interactions: the first, with video 102, has left the last 50
NovLongHistory ==
    [i \in 1..(HistoryWindow + 1) |-> [video_id |-> IF i = 1 THEN 102 ELSE 101]]

NovHistories == {<<>>, <<[video_id |-> 101]>>, <<[video_id |-> 999]>>, NovLongHistory}

\* budgets 0, 0, 1, 3, 5 and 6
SessionLengths == {0, 6, 7, 20, 34, 40}

NovInit ==
    /\ video_states = <<>>
    /\ cohort_baselines = <<>>
    /\ vf_meta = <<>>
    /\ arm_stats = <<>>
    /\ user_embeddings = <<>>
    /\ candidates \in NovCandidateLists
    /\ inputs \in [user_history : NovHistories,
                   content_embeddings : NovEmbeddingMaps,
                   session_length : SessionLengths]
    /\ nops = 0
    /\ last = NoCall

\* NoveltyInjector.inject_novelty applied to the current list
InjectNovelty ==
    /\ nops < MaxNovOps
    /\ LET r == inject_novelty_logged(candidates, inputs.user_history,
                                      inputs.content_embeddings,
                                      inputs.session_length)
       IN  /\ candidates' = r.ranked
           /\ last' = [op |-> "inject_novelty", video_id |-> 0,
                       input |-> candidates,
                       novel |-> NovelCandidates(candidates, inputs.user_history,
                                                 inputs.content_embeddings),
                       log |-> r.log]
    /\ nops' = nops + 1
    /\ UNCHANGED <<engineVars, inputs>>

NovNext == InjectNovelty

SpecNovelty == NovInit /\ [][NovNext]_vars

-----------------------------------------------------------------------------
(* Properties of the novelty stage                                         *)

RanInjectNovelty == last.op = "inject_novelty"

\* the novel candidates the call selected: the first novelty_budget of them
SelectedNovel == FirstN(last.novel, NoveltyBudget(inputs.session_length))

NumInserted == Len(last.log)

\* the index, counted from 0, that turn i inserts at
PositionOfTurn(i) == positions[(i % Len(positions)) + 1]

\* the list with its insertions taken out again, the last insertion first
RECURSIVE UndoInsertions(_, _)
UndoInsertions(list, log) ==
    IF log = <<>> THEN list
    ELSE LET p == log[Len(log)].position
         IN  UndoInsertions(SubSeq(list, 1, p) \o SubSeq(list, p + 2, Len(list)),
                            SubSeq(log, 1, Len(log) - 1))

\* the candidate of turn i is at the index reserved for the turn
AtReservedIndex(i) ==
    /\ PositionOfTurn(i) + 1 <= Len(candidates)
    /\ candidates[PositionOfTurn(i) + 1] = SelectedNovel[i + 1]

\* the scenario of the claim: session_length = 20 (budget 3) and at least 3 novel
ScenarioOfThree == inputs.session_length = 20 /\ Len(last.novel) >= 3

\* every input entry is still there, in its order, and nothing was replaced
InputKeptInOrder ==
    /\ UndoInsertions(candidates, last.log) = last.input
    /\ Len(candidates) = Len(last.input) + NumInserted

\* C9 as stated: with budget b = floor(session_length * novelty_rate), up to b novel
\* candidates are inserted, exactly 3 when session_length = 20 and at least 3
\* candidates are novel, the i-th ending at index positions[i mod 5] of the
\* returned list; the input entries stay, in order, the list longer by the
\* number inserted
C9_InsertedAtReservedIndices ==
    RanInjectNovelty =>
        /\ NumInserted <= NoveltyBudget(inputs.session_length)
        /\ (ScenarioOfThree =>
               NumInserted = 3 /\ \A i \in 0..2 : AtReservedIndex(i))
        /\ \A k \in 1..NumInserted : AtReservedIndex(last.log[k].turn)
        /\ InputKeptInOrder

\* C9 amended: the budget is floor(session_length * novelty_rate); turn i (from 0)
\* of the first b novel candidates inserts at index positions[i mod 5] only when
\* that index is below the current length of the list, so at most min(b, novel)
\* are inserted; in the scenario exactly 3 are inserted, at indices 5, 10 and 15,
\* when the list has at least 14 entries, and fewer when it is shorter; an
\* inserted candidate stays at its index as long as no position is reused
\* (b <= 5); the input entries stay, in order, the list longer by the number
\* inserted
C9_InsertedWhereListReaches ==
    RanInjectNovelty =>
        /\ NoveltyBudget(inputs.session_length) = (15 * inputs.session_length) \div 100
        /\ NumInserted <= Min(NoveltyBudget(inputs.session_length), Len(last.novel))
        /\ \A i \in 0..(Len(SelectedNovel) - 1) :
              (\E k \in 1..NumInserted : last.log[k].turn = i)
                 <=> PositionOfTurn(i) <
                        Len(last.input)
                          + Cardinality({k \in 1..NumInserted : last.log[k].turn < i})
        /\ (ScenarioOfThree /\ Len(last.input) >= 14 =>
               NumInserted = 3 /\ \A i \in 0..2 : AtReservedIndex(i))
        /\ (ScenarioOfThree /\ Len(last.input) < 14 => NumInserted < 3)
        /\ (NoveltyBudget(inputs.session_length) <= Len(positions) =>
               \A k \in 1..NumInserted : AtReservedIndex(last.log[k].turn))
        /\ InputKeptInOrder

\* C9 witness: the scenario on a list of 16 entries: three insertions, at 5, 10, 15
C9_Witness ==
    /\ RanInjectNovelty
    /\ ScenarioOfThree
    /\ Len(last.input) = 16
    /\ last.log = <<[turn |-> 0, position |-> 5], [turn |-> 1, position |-> 10],
                    [turn |-> 2, position |-> 15]>>
    /\ Len(candidates) = 19
    /\ \A i \in 0..2 : AtReservedIndex(i)

\* a budget of 6: the sixth novel candidate is inserted at index 5 again and
\* moves the first one to index 6
C9_ReuseWitness ==
    /\ RanInjectNovelty
    /\ NoveltyBudget(inputs.session_length) = 6
    /\ \E k \in 1..NumInserted : last.log[k] = [turn |-> 5, position |-> 5]
    /\ candidates[6] = SelectedNovel[6]
    /\ candidates[7] = SelectedNovel[1]

-----------------------------------------------------------------------------
(* Contextual bandit (src/lib/ranking/exploration.py)                      *)
(*                                                                         *)
(* An embedding field of UserFeatures / VideoFeatures holds None, a Python *)
(* list or a numpy array: [kind, v].  A context vector has context_dim     *)
(* entries, nearly all of them zero, and is kept sparse: its length and    *)
(* its non-zero entries by index (from 1).  A[video_id] is the identity    *)
(* plus a sum of outer products of contexts, so it differs from the        *)
(* identity only on the indices some context was non-zero at; A and b are  *)
(* kept on those indices.                                                  *)

ContextDim == 1664          \* context_dim

ShortDim == 128             \* np.zeros(128)
MidDim == 256               \* np.zeros(256)
LongDim == 512              \* np.zeros(512)
ContentDim == 768           \* np.zeros(768)

Alpha == ROne               \* alpha = 1.0

NoEmbedding == [kind |-> "none", v |-> <<>>]

ListOf(v) == [kind |-> "list", v |-> v]

ArrayOf(v) == [kind |-> "ndarray", v |-> v]

\* bool(x) raises ValueError: a numpy array of two or more elements
TruthRaises(x) == x.kind = "ndarray" /\ Len(x.v) >= 2

\* bool(x) where it does not raise: None and the empty list are false, a list with
\* entries is true, an array of one element is true when the element is not 0
Truthy(x) ==
    CASE x.kind = "none" -> FALSE
      [] x.kind = "list" -> Len(x.v) > 0
      [] OTHER -> Len(x.v) = 1 /\ x.v[1] # 0

Zeros(n) == [len |-> n, nz |-> <<>>]

Sparse(v) ==
    [len |-> Len(v), nz |-> [i \in {j \in 1..Len(v) : v[j] # 0} |-> v[i]]]

\* x or np.zeros(n)
OrZeros(x, n) == IF Truthy(x) THEN Sparse(x.v) ELSE Zeros(n)

\* np.concatenate([a, b])
Concat(a, b) ==
    [len |-> a.len + b.len,
     nz  |-> [i \in DOMAIN a.nz \cup {j + a.len : j \in DOMAIN b.nz} |->
                IF i \in DOMAIN a.nz THEN a.nz[i] ELSE b.nz[i - a.len]]]

\* pad with zeros or truncate to context_dim
PadOrTruncate(context) ==
    [len |-> ContextDim,
     nz  |-> [i \in {j \in DOMAIN context.nz : j <= ContextDim} |-> context.nz[i]]]

ContextRaises(user_features, video_features) ==
    \/ TruthRaises(user_features.short_term_embedding)
    \/ TruthRaises(user_features.mid_term_embedding)
    \/ TruthRaises(user_features.long_term_embedding)
    \/ TruthRaises(video_features.content_embedding)

\* ContextualBandit._get_context, where it does not raise
get_context(user_features, video_features) ==
    PadOrTruncate(
        Concat(Concat(Concat(OrZeros(user_features.short_term_embedding, ShortDim),
                             OrZeros(user_features.mid_term_embedding, MidDim)),
                      OrZeros(user_features.long_term_embedding, LongDim)),
               OrZeros(video_features.content_embedding, ContentDim)))

\* entry i of a sparse vector
At(x, i) == IF i \in DOMAIN x THEN x[i] ELSE 0

\* entry (i, j) of A: the identity where no outer product reached
AEntry(A, i, j) ==
    IF <<i, j>> \in DOMAIN A THEN A[<<i, j>>] ELSE IF i = j THEN 1 ELSE 0

\* entry i of b, a rational: zero where no context reached
BEntry(b, i) == IF i \in DOMAIN b THEN b[i] ELSE RZero

\* np.eye(context_dim), np.zeros(context_dim)
FreshArm == [A |-> <<>>, b |-> <<>>, log |-> <<>>]

-----------------------------------------------------------------------------
(* Exact solution of A x = rhs on the indices A or the context reach       *)

RECURSIVE RSum(_)
RSum(s) == IF s = <<>> THEN RZero ELSE RAdd(Head(s), RSum(Tail(s)))

\* the tuple <<f[1], ..., f[n]>>, each entry evaluated once
RECURSIVE AsTuple(_, _)
AsTuple(f, n) == IF n = 0 THEN <<>> ELSE Append(AsTuple(f, n - 1), f[n])

\* M without its first row and its j-th column
Minor(M, j) ==
    LET n == Len(M) - 1
    IN  AsTuple([r \in 1..n |->
                   AsTuple([c \in 1..n |-> M[r + 1][IF c < j THEN c ELSE c + 1]], n)],
                n)

\* determinant, by expansion along the first row
RECURSIVE RDet(_)
RDet(M) ==
    IF Len(M) = 0 THEN ROne
    ELSE RSum(AsTuple([j \in 1..Len(M) |->
                         IF M[1][j] = RZero THEN RZero
                         ELSE RMul(IF j % 2 = 1 THEN M[1][j] ELSE RSub(RZero, M[1][j]),
                                   RDet(Minor(M, j)))],
                      Len(M)))

\* M with its j-th column replaced by rhs
ReplaceColumn(M, j, rhs) ==
    LET n == Len(M)
    IN  AsTuple([r \in 1..n |->
                   AsTuple([c \in 1..n |-> IF c = j THEN rhs[r] ELSE M[r][c]], n)],
                n)

\* np.linalg.solve(M, rhs): Cramer's rule
Solve(M, rhs) ==
    LET det == RDet(M)
    IN  AsTuple([j \in 1..Len(M) |-> RDiv(RDet(ReplaceColumn(M, j, rhs)), det)],
                Len(M))

\* the indices at which A is not the identity
SupportOf(A) == {p[1] : p \in DOMAIN A}

\* the indices a solve against this context has to look at, in order
IndicesFor(arm, context) == SetToSeq(SupportOf(arm.A) \cup DOMAIN context.nz)

MatrixOn(A, idx) ==
    LET n == Len(idx)
    IN  AsTuple([r \in 1..n |->
                   AsTuple([c \in 1..n |-> <<AEntry(A, idx[r], idx[c]), 1>>], n)],
                n)

\* np.dot(theta, context), theta = np.linalg.solve(A, b)
Exploitation(arm, context) ==
    LET idx   == IndicesFor(arm, context)
        n     == Len(idx)
        theta == Solve(MatrixOn(arm.A, idx),
                       AsTuple([r \in 1..n |-> BEntry(arm.b, idx[r])], n))
    IN  RSum(AsTuple([r \in 1..n |-> RMul(theta[r], <<At(context.nz, idx[r]), 1>>)], n))

\* context.T @ np.linalg.solve(A, context): the square of uncertainty / alpha
UncertaintySq(arm, context) ==
    LET idx == IndicesFor(arm, context)
        n   == Len(idx)
        c   == AsTuple([r \in 1..n |-> <<At(context.nz, idx[r]), 1>>], n)
        x   == Solve(MatrixOn(arm.A, idx), c)
    IN  RSum(AsTuple([r \in 1..n |-> RMul(x[r], c[r])], n))

-----------------------------------------------------------------------------
(* ContextualBandit.update and ContextualBandit.select_arms                *)

ArmOf(stats, video_id) ==
    IF video_id \in DOMAIN stats THEN stats[video_id] ELSE FreshArm

\* the outer product added to a fresh identity instead of to A
CovarianceReinitialised(A, context) ==
    LET S == SupportOf(A) \cup DOMAIN context.nz
    IN  [p \in S \X S |-> (IF p[1] = p[2] THEN 1 ELSE 0)
                              + At(context.nz, p[1]) * At(context.nz, p[2])]

\* self.A[video_id] += np.outer(context, context)
CovarianceAfter(A, context) ==
    LET S == SupportOf(A) \cup DOMAIN context.nz
    IN  [p \in S \X S |-> AEntry(A, p[1], p[2]) + At(context.nz, p[1]) * At(context.nz, p[2])]

\* self.b[video_id] = reward * context
RewardVectorOverwritten(b, context, reward) ==
    [i \in DOMAIN b \cup DOMAIN context.nz |-> RMul(reward, <<At(context.nz, i), 1>>)]

\* self.b[video_id] += reward * context
RewardVectorAfter(b, context, reward) ==
    [i \in DOMAIN b \cup DOMAIN context.nz |->
        RAdd(BEntry(b, i), RMul(reward, <<At(context.nz, i), 1>>))]

\* the arm after update(video_id, ..., reward) with this context; log keeps, for
\* each update, the context, the reward and the exploitation score the new
\* statistics give that context
ArmAfterUpdate(arm, context, reward) ==
    LET a1 == [A |-> CovarianceAfter(arm.A, context),
               b |-> RewardVectorAfter(arm.b, context, reward)]
    IN  [A |-> a1.A, b |-> a1.b,
         log |-> Append(arm.log, [context |-> context, reward |-> reward,
                                  exploitation |-> Exploitation(a1, context)])]

\* ContextualBandit.update, where _get_context does not raise
update(stats, video_id, user_features, video_features, reward) ==
    (video_id :> ArmAfterUpdate(ArmOf(stats, video_id),
                                get_context(user_features, video_features), reward))
        @@ stats

\* uncertainty > exploitation * 0.1, uncertainty = alpha * sqrt(u)
IsExploration(e, u) ==
    \/ RLess(e, RZero)
    \/ RLess(RMul(RMul(e, e), <<1, 100>>), RMul(RMul(Alpha, Alpha), u))

\* one pass of the loop of select_arms over a candidate whose context exists
Scored(stats, user_features, candidate) ==
    IF candidate.video_id \notin DOMAIN stats
    THEN [candidate EXCEPT !.ranking_score = Infinite, !.is_exploration = TRUE]
    ELSE LET context == get_context(user_features, candidate.video_features)
             e == Exploitation(stats[candidate.video_id], context)
             u == UncertaintySq(stats[candidate.video_id], context)
         IN  [candidate EXCEPT
                !.ranking_score = [inf |-> FALSE, e |-> e,
                                   u |-> RMul(RMul(Alpha, Alpha), u)],
                !.is_exploration = IsExploration(e, u)]

\* the first candidate whose context raises, 0 if none does
FirstRaising(user_features, cands) ==
    LET bad == {i \in 1..Len(cands) : ContextRaises(user_features, cands[i].video_features)}
    IN  IF bad = {} THEN 0 ELSE CHOOSE i \in bad : \A j \in bad : i <= j

\* ContextualBandit.select_arms.  The candidates are objects the loop writes to:
\* when a context raises, those before it already carry their new scores.
select_arms(stats, user_features, cands, k) ==
    LET stop == FirstRaising(user_features, cands)
    IN  IF stop = 0
        THEN [error |-> "none",
              ranked |-> FirstN(SortDescending(
                            AsTuple([i \in 1..Len(cands) |->
                                        Scored(stats, user_features, cands[i])],
                                    Len(cands))),
                            k)]
        ELSE [error |-> "ValueError",
              ranked |-> AsTuple([i \in 1..Len(cands) |->
                                    IF i < stop THEN Scored(stats, user_features, cands[i])
                                    ELSE cands[i]],
                                 Len(cands))]

-----------------------------------------------------------------------------
(* Inputs and specification of the bandit                                  *)

MaxBanditOps == 3       \* calls of update / select_arms per behaviour

UserOf(user_id, short, mid, long) ==
    [user_id |-> user_id, short_term_embedding |-> short,
     mid_term_embedding |-> mid, long_term_embedding |-> long]

\* user 1: a one-entry list; user 2: a two-entry list; user 3: numpy arrays of two
\* entries; user 4: a one-element array holding 0.0 and nothing else
BanditUsers ==
    {UserOf(1, ListOf(<<1>>), NoEmbedding, NoEmbedding),
     UserOf(2, ListOf(<<1, 1>>), NoEmbedding, NoEmbedding),
     UserOf(3, ArrayOf(<<1, 1>>), ArrayOf(<<1, 1>>), ArrayOf(<<1, 1>>)),
     UserOf(4, ArrayOf(<<0>>), NoEmbedding, NoEmbedding)}

VideoOf(video_id, category, content) ==
    [video_id |-> video_id, category |-> category, content_embedding |-> content]

\* video 1: no content embedding; video 2: a one-entry list; video 3: a numpy array
BanditVideos ==
    {VideoOf(1, NoCategory, NoEmbedding),
     VideoOf(2, 1, ListOf(<<1>>)),
     VideoOf(3, 1, ArrayOf(<<1, 2>>))}

\* a RankingCandidate as the ranker builds it
CandidateOf(video_features, score) ==
    [video_id |-> video_features.video_id,
     category |-> video_features.category,
     video_features |-> video_features,
     ranking_score |-> score,
     is_exploration |-> FALSE]

\* the candidate of a video, by its video_id
BanditCandidate(video_id, score) ==
    CandidateOf(CHOOSE v \in BanditVideos : v.video_id = video_id, score)

BanditUser(user_id) == CHOOSE u \in BanditUsers : u.user_id = user_id

BanditVideo(video_id) == CHOOSE v \in BanditVideos : v.video_id = video_id

\* the calls of update: user, video, reward
BanditUpdates ==
    {<<u, v, <<1, 1>>>> : u \in {1, 2}, v \in {1, 2}}
        \cup {<<4, 2, <<1, 1>>>>, <<1, 1, <<3, 10>>>>, <<2, 2, <<3, 10>>>>,
              <<3, 1, <<1, 1>>>>, <<1, 3, <<1, 1>>>>}

\* the calls of select_arms: user, candidate list, k
BanditSelections ==
    {[user_id |-> 1, cands |-> <<>>, k |-> 1],
     [user_id |-> 1,
      cands |-> <<BanditCandidate(1, Plain(<<2, 1>>)),
                  BanditCandidate(2, Plain(<<1, 1>>))>>, k |-> 1],
     [user_id |-> 2,
      cands |-> <<BanditCandidate(2, Plain(<<2, 1>>)),
                  BanditCandidate(1, Plain(<<1, 1>>))>>, k |-> 4],
     [user_id |-> 4,
      cands |-> <<BanditCandidate(2, Plain(<<2, 1>>)),
                  BanditCandidate(3, Plain(<<1, 1>>)),
                  BanditCandidate(1, Plain(<<0, 1>>))>>, k |-> 2],
     [user_id |-> 3,
      cands |-> <<BanditCandidate(1, Plain(<<2, 1>>))>>, k |-> 2]}

BanditInit ==
    /\ video_states = <<>>
    /\ cohort_baselines = <<>>
    /\ vf_meta = <<>>
    /\ arm_stats = <<>>
    /\ user_embeddings = <<>>
    /\ candidates = <<>>
    /\ inputs = <<>>
    /\ nops = 0
    /\ last = NoCall

\* ContextualBandit.update
BanditUpdate(user_features, video_features, reward) ==
    /\ nops < MaxBanditOps
    /\ IF ContextRaises(user_features, video_features)
       THEN /\ last' = [op |-> "update", video_id |-> video_features.video_id,
                        error |-> "ValueError"]
            /\ UNCHANGED arm_stats
       ELSE /\ arm_stats' = update(arm_stats, video_features.video_id,
                                   user_features, video_features, reward)
            /\ last' = [op |-> "update", video_id |-> video_features.video_id,
                        error |-> "none"]
    /\ nops' = nops + 1
    /\ UNCHANGED <<coldVars, user_embeddings, candidates, inputs>>

\* ContextualBandit.select_arms
SelectArms(user_features, cands, k) ==
    /\ nops < MaxBanditOps
    /\ LET r == select_arms(arm_stats, user_features, cands, k)
       IN  /\ candidates' = r.ranked
           /\ last' = [op |-> "select_arms", video_id |-> 0, error |-> r.error,
                       user_id |-> user_features.user_id, input |-> cands, k |-> k]
    /\ nops' = nops + 1
    /\ UNCHANGED <<coldVars, arm_stats, user_embeddings, inputs>>

BanditNext ==
    \/ \E c \in BanditUpdates :
          BanditUpdate(BanditUser(c[1]), BanditVideo(c[2]), c[3])
    \/ \E s \in BanditSelections : SelectArms(BanditUser(s.user_id), s.cands, s.k)

SpecBandit == BanditInit /\ [][BanditNext]_vars

-----------------------------------------------------------------------------
(* Properties of the bandit                                                *)

\* every update of the arm had reward 1.0 and the same context
UniformLog(log) ==
    \A k \in 1..Len(log) : log[k].reward = ROne /\ log[k].context = log[1].context

\* C7: for an item updated N times with reward 1.0 and the same context c, the
\* exploitation score theta . c (theta solving A theta = b) is non-decreasing
\* in N: the score after each update is at least the score after the one before
C7_ExploitationNonDecreasing ==
    \A v \in DOMAIN arm_stats :
        LET log == arm_stats[v].log
        IN  UniformLog(log) =>
               /\ \A k \in 1..(Len(log) - 1) :
                     RLeq(log[k].exploitation, log[k + 1].exploitation)
               /\ log[Len(log)].exploitation
                     = Exploitation(arm_stats[v], log[1].context)

\* C7 witness: three updates with reward 1.0 and a context of norm 1 give the
\* scores 1/2, 2/3 and 3/4
C7_Witness ==
    \E v \in DOMAIN arm_stats :
        /\ UniformLog(arm_stats[v].log)
        /\ Len(arm_stats[v].log) = 3
        /\ [k \in 1..3 |-> arm_stats[v].log[k].exploitation]
              = <<(<<1, 2>>), (<<2, 3>>), (<<3, 4>>)>>


-----------------------------------------------------------------------------
(* Ranking model (src/lib/ranking/multi_objective_ranker.py).  The torch   *)
(* networks are not modelled: what rank needs of its inputs is, and the    *)
(* score the networks give a video is read from inputs.scores.             *)

UserDim == 896              \* user_dim
RankerContentDim == 768     \* content_dim

\* input_dim = user_dim + content_dim of every predictor the ranker builds
RankerInputDim == UserDim + RankerContentDim

\* the length of torch.cat([user_short, user_mid, user_long, content])
FeaturesLen(user_features, video_features) ==
    Len(user_features.short_term_embedding.v)
        + Len(user_features.mid_term_embedding.v)
        + Len(user_features.long_term_embedding.v)
        + Len(video_features.content_embedding.v)

\* torch.from_numpy takes a numpy array and nothing else
UserTensorsRaise(user_features) ==
    \/ user_features.short_term_embedding.kind # "ndarray"
    \/ user_features.mid_term_embedding.kind # "ndarray"
    \/ user_features.long_term_embedding.kind # "ndarray"

\* the error the loop of rank stops with at a video, "none" if it scores it
RankErrorAt(user_features, video_features, ranker_dim) ==
    IF video_features.content_embedding.kind # "ndarray" THEN "TypeError"
    ELSE IF FeaturesLen(user_features, video_features) # ranker_dim THEN "RuntimeError"
    ELSE "none"

\* MultiObjectiveRanker.rank
rank(user_features, candidate_videos, ranker_dim, scores) ==
    LET bad == {i \in 1..Len(candidate_videos) :
                   RankErrorAt(user_features, candidate_videos[i], ranker_dim) # "none"}
    IN  IF UserTensorsRaise(user_features)
        THEN [error |-> "TypeError", ranked |-> <<>>]
        ELSE IF bad # {}
        THEN [error |-> RankErrorAt(user_features,
                                    candidate_videos[CHOOSE i \in bad : \A j \in bad : i <= j],
                                    ranker_dim),
              ranked |-> <<>>]
        ELSE [error |-> "none",
              ranked |-> SortDescending(
                 AsTuple([i \in 1..Len(candidate_videos) |->
                             CandidateOf(candidate_videos[i],
                                         Plain(scores[candidate_videos[i].video_id]))],
                         Len(candidate_videos)))]

-----------------------------------------------------------------------------
(* Fast taste discovery and the exploration manager                        *)
(* (src/lib/ranking/exploration.py)                                        *)

MinInteractions == 5                    \* min_interactions
TasteSessionLength == 10                \* if session_length < 10
EngagementThreshold == <<1, 2>>         \* threshold = 0.5
BoostFactor == <<3, 2>>                 \* boost_factor = 1.5

\* the embeddings of the interactions watched past the threshold and not skipped
PreferredEmbeddings(recent_interactions, content_embeddings) ==
    LET high_engagement ==
            SelectSeq(recent_interactions,
                      LAMBDA i : RLess(EngagementThreshold, i.watch_time) /\ ~i.skip)
        known == SelectSeq(high_engagement,
                           LAMBDA i : i.video_id \in DOMAIN content_embeddings)
    IN  [i \in 1..Len(known) |-> content_embeddings[known[i].video_id]]

\* the analysis made whatever the number of interactions
discover_preferences_any_length(recent_interactions, content_embeddings) ==
    LET preferred == PreferredEmbeddings(recent_interactions, content_embeddings)
    IN  IF Len(preferred) = 0 THEN [found |-> FALSE, preferred_centroid |-> <<>>]
        ELSE [found |-> TRUE, preferred_centroid |-> CentroidSum(preferred)]

\* FastTasteDiscovery.discover_preferences: found is FALSE where it returns None;
\* the centroid is kept as the sum, which has the same cosines
discover_preferences(recent_interactions, content_embeddings) ==
    LET preferred == IF Len(recent_interactions) < MinInteractions THEN <<>>
                     ELSE PreferredEmbeddings(recent_interactions, content_embeddings)
    IN  IF Len(preferred) = 0 THEN [found |-> FALSE, preferred_centroid |-> <<>>]
        ELSE [found |-> TRUE, preferred_centroid |-> CentroidSum(preferred)]

Boosted(candidate, preferred_centroid) ==
    IF /\ candidate.video_features.content_embedding.kind # "none"
       /\ CosineAbove(candidate.video_features.content_embedding.v,
                      preferred_centroid, 7, 10)
    THEN [candidate EXCEPT !.ranking_score = ScoreTimes(@, BoostFactor)]
    ELSE candidate

\* FastTasteDiscovery.apply_boost
apply_boost(cands, preferred_centroid) ==
    SortDescending(AsTuple([i \in 1..Len(cands) |-> Boosted(cands[i], preferred_centroid)],
                           Len(cands)))

\* the interactions discover_preferences counts as high engagement
HighEngagement(recent_interactions) ==
    SelectSeq(recent_interactions,
              LAMBDA i : RLess(EngagementThreshold, i.watch_time) /\ ~i.skip)

\* the videos whose score step 1 of process_candidates multiplies
BoostedIds(cands, user_history, content_embeddings, session_length) ==
    LET preferences == discover_preferences(user_history, content_embeddings)
    IN  IF session_length < TasteSessionLength /\ preferences.found
        THEN {cands[i].video_id :
                i \in {j \in 1..Len(cands) :
                         Boosted(cands[j], preferences.preferred_centroid) # cands[j]}}
        ELSE {}

\* step 1 of process_candidates: the boost, if preferences were found
BoostIfFound(cands, preferences) ==
    IF preferences.found THEN apply_boost(cands, preferences.preferred_centroid)
    ELSE cands

\* process_candidates from the result of select_arms on: the error, or the list
\* with its novelty cut to k; log is the insertions of inject_novelty
ExploredFrom(selected, user_history, content_embeddings, session_length, k) ==
    IF selected.error # "none"
    THEN [error |-> selected.error, ranked |-> <<>>, log |-> <<>>]
    ELSE [error |-> "none",
          ranked |-> FirstN(inject_novelty(selected.ranked, user_history,
                                           content_embeddings, session_length), k),
          log |-> inject_novelty_logged(selected.ranked, user_history,
                                        content_embeddings, session_length).log]

\* ExplorationExploitationManager.process_candidates
process_candidates(stats, user_features, cands, user_history, content_embeddings, session_length, k) ==
    ExploredFrom(
        select_arms(stats, user_features,
                    IF session_length < TasteSessionLength
                    THEN BoostIfFound(cands, discover_preferences(user_history,
                                                                  content_embeddings))
                    ELSE cands,
                    k * 2),
        user_history, content_embeddings, session_length, k)

\* reward of update_from_interaction: skip, like and share are booleans
Reward(interaction) ==
    RAdd(RAdd(IF interaction.skip THEN RZero ELSE interaction.watch_time,
              IF interaction.like THEN <<3, 10>> ELSE RZero),
         IF interaction.share THEN <<1, 2>> ELSE RZero)

-----------------------------------------------------------------------------
(* Inference pipeline (src/implementations/v1/inference/inference_pipeline.py) *)

\* an array of n entries; where the code draws them with randn, every array of
\* n > 1 entries behaves as this one does in what follows
Ones(n) == [i \in 1..n |-> 1]

\* InferencePipeline._create_cold_start_user
create_cold_start_user(user_id) ==
    UserOf(user_id, ArrayOf(Ones(ShortDim)), ArrayOf(Ones(MidDim)),
           ArrayOf(Ones(LongDim)))

\* s reversed
Reversed(s) == [i \in 1..Len(s) |-> s[Len(s) + 1 - i]]

\* InferencePipeline._generate_candidates: np.random.choice without replacement
\* of min(pool_size, number of videos) ids.  Of the orders it can draw, the
\* ascending and the descending one are followed.
Draws(video_features, pool_size) ==
    LET all_video_ids == SetToSeq(DOMAIN video_features)
        size == Min(pool_size, Len(all_video_ids))
    IN  {FirstN(all_video_ids, size), FirstN(Reversed(all_video_ids), size)}

\* ranked[:feed_size + 1]
TopKInclusive(ranked, feed_size) == FirstN(ranked, feed_size + 1)

\* ranked[:feed_size]
TopK(ranked, feed_size) == FirstN(ranked, feed_size)

\* InferencePipeline._get_video_interactions
get_video_interactions == <<>>

\* the stages of generate_feed in the order of its statements, steps 3 to 6 and
\* the return; step 7 (stabilize_feed) is under `if self.online_learning`, which
\* __init__ sets to None and nothing assigns afterwards
FeedStages ==
    <<"rank", "process_candidates", "enforce_diversity", "suppress_spam", "top_k">>

\* generate_feed from the result of process_candidates on: the error, or the feed
\* after stages 5 and 6 and the cut to feed_size, with the length of the list the
\* feed was cut from and the insertions of inject_novelty; stages is the stages
\* entered and explored the list process_candidates returned.
FeedFrom(explored, user_history, content_embeddings, feed_size) ==
    IF explored.error # "none"
    THEN [error |-> explored.error, feed |-> <<>>, before |-> 0, log |-> <<>>,
          explored |-> <<>>, stages |-> FirstN(FeedStages, 2)]
    ELSE [error |-> "none", stages |-> FeedStages,
          feed |-> TopK(suppress_spam(enforce_diversity(explored.ranked, user_history,
                                                        content_embeddings),
                                      get_video_interactions),
                        feed_size),
          before |-> Len(enforce_diversity(explored.ranked, user_history,
                                           content_embeddings)),
          explored |-> explored.ranked,
          log |-> explored.log]

\* generate_feed from the result of rank on
RankedFrom(ranked, stats, world, user_features, session_context, feed_size) ==
    IF ranked.error # "none"
    THEN [error |-> ranked.error, feed |-> <<>>, before |-> 0, log |-> <<>>,
          explored |-> <<>>, stages |-> FirstN(FeedStages, 1)]
    ELSE FeedFrom(process_candidates(stats, user_features, ranked.ranked,
                                     session_context.recent_interactions,
                                     world.content_embeddings,
                                     session_context.current_length, feed_size * 2),
                  session_context.recent_interactions, world.content_embeddings,
                  feed_size)

\* InferencePipeline.generate_feed from the user's features and the ids drawn
generate_feed(stats, world, user_features, candidate_ids, session_context, feed_size) ==
    RankedFrom(rank(user_features,
                    AsTuple([i \in 1..Len(candidate_ids) |->
                                world.video_features[candidate_ids[i]]],
                            Len(candidate_ids)),
                    world.ranker_dim, world.scores),
               stats, world, user_features, session_context, feed_size)

-----------------------------------------------------------------------------
(* Inputs and specification of the inference pipeline                      *)

MaxFeedOps == 3         \* calls of the pipeline per behaviour

InteractionOf(user_id, video_id, watch_time, skip, like, share) ==
    [user_id |-> user_id, video_id |-> video_id, watch_time |-> watch_time,
     skip |-> skip, like |-> like, share |-> share]

\* a user and videos whose embeddings are numpy arrays of one entry (the user's
\* mid-term and long-term entry is 0.0), with a ranker whose predictors were
\* built for that width.  Videos 1, 2 and 3 have their embedding in
\* content_embeddings, as has video 101, which is only ever in a history.
SmallUser == UserOf(1, ArrayOf(<<1>>), ArrayOf(<<0>>), ArrayOf(<<0>>))

SmallVideos ==
    <<VideoOf(1, 1, ArrayOf(<<1>>)),
      VideoOf(2, 1, ArrayOf(<<-1>>)),
      VideoOf(3, 2, ArrayOf(<<0>>)),
      VideoOf(4, 1, ArrayOf(<<1>>)),
      VideoOf(5, 2, ArrayOf(<<1>>)),
      VideoOf(6, NoCategory, ArrayOf(<<1>>)),
      VideoOf(7, 2, ArrayOf(<<-1>>)),
      VideoOf(8, 2, ArrayOf(<<1>>))>>

SmallWorld ==
    [ranker_dim |-> FeaturesLen(SmallUser, SmallVideos[1]),
     video_features |-> SmallVideos,
     content_embeddings |->
        [v \in {1, 2, 3} |-> SmallVideos[v].content_embedding.v] @@ (101 :> <<-1>>),
     scores |-> <<(<<1, 2>>), (<<1, 2>>), (<<1, 4>>), (<<3, 4>>),
                  (<<-1, 20>>), (<<1, 4>>), (<<0, 1>>), (<<-1, 10>>)>>,
     users |-> (1 :> SmallUser)]

\* the ranker MultiObjectiveRanker.__init__ builds, a user with the embeddings
\* the training pipeline gives one, a video with a content embedding of 768
\* entries and a video without one
RepoWorld ==
    [ranker_dim |-> RankerInputDim,
     video_features |->
        <<VideoOf(1, 1, ArrayOf(Ones(RankerContentDim))), VideoOf(2, NoCategory, NoEmbedding)>>,
     content_embeddings |-> (1 :> Ones(RankerContentDim)),
     scores |-> <<(<<1, 2>>), (<<1, 4>>)>>,
     users |-> (1 :> create_cold_start_user(1))]

\* the pipeline of a service just constructed: no video, no user
EmptyWorld ==
    [ranker_dim |-> RankerInputDim, video_features |-> <<>>,
     content_embeddings |-> <<>>, scores |-> <<>>, users |-> <<>>]

FeedWorlds == {SmallWorld, RepoWorld, EmptyWorld}

Watched(video_id) == InteractionOf(1, video_id, ROne, FALSE, FALSE, FALSE)

\* five interactions with video 101, watched to the end
WatchedHistory == [i \in 1..MinInteractions |-> Watched(101)]

\* the same after a skip of video 5
SkippedHistory ==
    <<InteractionOf(1, 5, <<1, 10>>, TRUE, FALSE, FALSE)>> \o WatchedHistory

SessionOf(current_length, recent_interactions) ==
    [current_length |-> current_length, recent_interactions |-> recent_interactions]

\* the calls of generate_feed: user 1 is known to SmallWorld and RepoWorld, user
\* 9 to none; the last call has a negative feed_size
FeedRequests ==
    {[user_id |-> 1, session |-> SessionOf(0, <<>>), pool_size |-> 1000, feed_size |-> 0],
     [user_id |-> 1, session |-> SessionOf(0, <<>>), pool_size |-> 1000, feed_size |-> 2],
     [user_id |-> 1, session |-> SessionOf(7, WatchedHistory), pool_size |-> 1000, feed_size |-> 3],
     [user_id |-> 1, session |-> SessionOf(20, SkippedHistory), pool_size |-> 1000, feed_size |-> 4],
     [user_id |-> 1, session |-> SessionOf(20, WatchedHistory), pool_size |-> 1000, feed_size |-> 20],
     [user_id |-> 1, session |-> SessionOf(7, WatchedHistory), pool_size |-> 1, feed_size |-> 1],
     [user_id |-> 1, session |-> SessionOf(0, <<>>), pool_size |-> 3, feed_size |-> 3],
     [user_id |-> 1, session |-> SessionOf(0, <<>>), pool_size |-> 0, feed_size |-> 2],
     [user_id |-> 9, session |-> SessionOf(0, <<>>), pool_size |-> 1000, feed_size |-> 2],
     [user_id |-> 9, session |-> SessionOf(0, <<>>), pool_size |-> 0, feed_size |-> 1],
     [user_id |-> 1, session |-> SessionOf(0, <<>>), pool_size |-> 1000, feed_size |-> -1]}

\* the interactions given to process_interaction: video 99 is in no world
FeedInteractions ==
    {InteractionOf(1, 6, ROne, FALSE, FALSE, FALSE),
     InteractionOf(1, 7, <<1, 2>>, FALSE, TRUE, FALSE),
     InteractionOf(1, 1, ROne, TRUE, FALSE, TRUE),
     InteractionOf(9, 1, ROne, FALSE, FALSE, FALSE),
     InteractionOf(1, 99, ROne, FALSE, FALSE, FALSE)}

FeedInit ==
    /\ video_states = <<>>
    /\ cohort_baselines = <<>>
    /\ vf_meta = <<>>
    /\ arm_stats = <<>>
    /\ \E world \in FeedWorlds :
          /\ user_embeddings = world.users
          /\ inputs = [ranker_dim |-> world.ranker_dim,
                       video_features |-> world.video_features,
                       content_embeddings |-> world.content_embeddings,
                       scores |-> world.scores]
    /\ candidates = <<>>
    /\ nops = 0
    /\ last = NoCall

\* self.user_embeddings.get(user_id), or the cold-start user made for the id
FeaturesFor(user_id) ==
    IF user_id \in DOMAIN user_embeddings THEN user_embeddings[user_id]
    ELSE create_cold_start_user(user_id)

\* what a call of generate_feed leaves: the feed, and the record of the call
FeedServed(user_id, feed_size, r) ==
    /\ candidates' = r.feed
    /\ last' = [op |-> "generate_feed", video_id |-> 0, error |-> r.error,
                user_id |-> user_id, feed_size |-> feed_size,
                before |-> r.before, log |-> r.log, stages |-> r.stages,
                explored |-> r.explored]

\* InferencePipeline.generate_feed
GenerateFeed(user_id, session_context, candidate_pool_size, feed_size) ==
    /\ nops < MaxFeedOps
    /\ \E candidate_ids \in Draws(inputs.video_features, candidate_pool_size) :
          FeedServed(user_id, feed_size,
                     generate_feed(arm_stats, inputs, FeaturesFor(user_id),
                                   candidate_ids, session_context, feed_size))
    /\ user_embeddings' = (user_id :> FeaturesFor(user_id)) @@ user_embeddings
    /\ nops' = nops + 1
    /\ UNCHANGED <<coldVars, arm_stats, inputs>>

\* InferencePipeline.process_interaction; online_learning is None.  known tells
\* whether the user and the video were both in the pipeline's tables; the
\* cold-start engine and the virality engine the pipeline holds are not called.
ProcessInteraction(interaction) ==
    /\ nops < MaxFeedOps
    /\ IF /\ interaction.user_id \in DOMAIN user_embeddings
          /\ interaction.video_id \in DOMAIN inputs.video_features
       THEN LET user_features == user_embeddings[interaction.user_id]
                video_features == inputs.video_features[interaction.video_id]
            IN  IF ContextRaises(user_features, video_features)
                THEN /\ last' = [op |-> "process_interaction",
                                 video_id |-> interaction.video_id,
                                 error |-> "ValueError", known |-> TRUE,
                                 reward |-> Reward(interaction)]
                     /\ UNCHANGED arm_stats
                ELSE /\ arm_stats' = update(arm_stats, interaction.video_id,
                                            user_features, video_features,
                                            Reward(interaction))
                     /\ last' = [op |-> "process_interaction",
                                 video_id |-> interaction.video_id, error |-> "none",
                                 known |-> TRUE, reward |-> Reward(interaction)]
       ELSE /\ last' = [op |-> "process_interaction", video_id |-> interaction.video_id,
                        error |-> "none", known |-> FALSE,
                        reward |-> Reward(interaction)]
            /\ UNCHANGED arm_stats
    /\ nops' = nops + 1
    /\ UNCHANGED <<coldVars, user_embeddings, candidates, inputs>>

\* UltraFastAddictiveService.generate_feed_ultra_fast.  The service has no
\* _create_cold_start_user, no exploration_manager and no failure_handler: for an
\* unknown user line 92 raises AttributeError, for a known one line 123 does
\* unless a stage before it has raised.  No call returns a feed, and none gets to
\* the bandit or to the user table.
GenerateFeedUltraFast(user_id) ==
    /\ nops < MaxFeedOps
    /\ last' = [op |-> "generate_feed_ultra_fast", video_id |-> 0,
                error |-> "AttributeError", user_id |-> user_id]
    /\ candidates' = <<>>
    /\ nops' = nops + 1
    /\ UNCHANGED <<engineVars, inputs>>

FeedNext ==
    \/ \E q \in FeedRequests :
          GenerateFeed(q.user_id, q.session, q.pool_size, q.feed_size)
    \/ \E interaction \in FeedInteractions : ProcessInteraction(interaction)
    \/ \E user_id \in {1, 9} : GenerateFeedUltraFast(user_id)

SpecFeed == FeedInit /\ [][FeedNext]_vars

-----------------------------------------------------------------------------
(* Properties of the inference pipeline                                    *)

\* the last call was generate_feed and it returned a feed
FeedReturned == last.op = "generate_feed" /\ last.error = "none"

\* C1: for every feed_size >= 0, every candidate pool and every session, the
\* list generate_feed returns has at most feed_size entries
C1_FeedWithinFeedSize ==
    (FeedReturned /\ last.feed_size >= 0) => Len(candidates) <= last.feed_size

\* C1 witness: a feed of feed_size > 0 entries cut from a longer list
C1_Witness ==
    /\ FeedReturned
    /\ last.feed_size > 0
    /\ Len(candidates) = last.feed_size
    /\ last.before > last.feed_size

\* the indices the claim sets aside: novelty and cliffhanger insertion
ReservedPositions == {5, 10, 15, 20, 25} \cup {3, 7, 12, 18}

\* ranking_score does not increase from index i - 1 to index i of the feed
InOrderAt(i) ==
    ScoreLeq(candidates[i + 1].ranking_score, candidates[i].ranking_score)

\* C2: in the list generate_feed returns, ranking_score does not increase from
\* an index to the next.  The claim leaves out the reserved indices; the feed is
\* in order at those as well, suppress_spam having sorted it after every
\* insertion.  generate_feed_ultra_fast returns no list at all.
C2_ScoresNonIncreasing ==
    /\ FeedReturned => \A i \in 1..(Len(candidates) - 1) : InOrderAt(i)
    /\ last.op = "generate_feed_ultra_fast" => last.error # "none"

\* C2 witness: a feed returned by a call in which inject_novelty inserted, with
\* a score that falls strictly from one index to the next
C2_Witness ==
    /\ FeedReturned
    /\ last.log # <<>>
    /\ \E i \in 1..(Len(candidates) - 1) :
          ScoreLess(candidates[i + 1].ranking_score, candidates[i].ranking_score)

\* a feed with two finite scores that differ, at indices 1 and 2, away from
\* every reserved index
C2_FiniteWitness ==
    /\ FeedReturned
    /\ Len(candidates) >= 3
    /\ {1, 2} \cap ReservedPositions = {}
    /\ ~candidates[2].ranking_score.inf
    /\ ScoreLess(candidates[3].ranking_score, candidates[2].ranking_score)

\* C11: a call of generate_feed with a negative feed_size fails with a
\* precondition error, returns no feed and enters no stage
C11_NegativeFeedSizeFailsFast ==
    (last.op = "generate_feed" /\ last.feed_size < 0)
        => /\ last.error = "PreconditionError"
           /\ candidates = <<>>
           /\ last.stages = <<>>

\* a call with feed_size = -1 that went through every stage and returned a feed
\* of one entry, ranked[:-1] of a list of two
C11_NegativeFeedServed ==
    /\ FeedReturned
    /\ last.feed_size < 0
    /\ last.stages = FeedStages
    /\ Len(candidates) = last.before + last.feed_size
    /\ candidates # <<>>

-----------------------------------------------------------------------------
(* Further properties of the bandit                                        *)

\* the context the last call of update computed
LastContext ==
    LET log == arm_stats[last.video_id].log IN log[Len(log)].context

\* C12: _get_context, called by update on its user and its video, never raises
\* and returns a vector of exactly context_dim entries
C12_GetContextTotal ==
    last.op = "update"
        => /\ last.error = "none"
           /\ LastContext.len = ContextDim

\* where the truth test of the four embeddings does not raise (None, lists,
\* arrays of one element), the context has context_dim entries: here a list of
\* two entries followed by 256 + 512 + 768 zeros, padded at the end
C12_PaddedContext ==
    /\ last.op = "update"
    /\ last.error = "none"
    /\ LastContext.len = ContextDim
    /\ DOMAIN LastContext.nz = {1, 2}

-----------------------------------------------------------------------------
(* Further properties of the inference pipeline                            *)

\* the component a stage of generate_feed belongs to: enforce_diversity and
\* suppress_spam are both methods of the FailureModeHandler
StageComponent(stage) ==
    CASE stage = "rank" -> "ranking"
      [] stage = "process_candidates" -> "exploration"
      [] stage = "maximize_engagement" -> "engagement_shaping"
      [] stage \in {"enforce_diversity", "suppress_spam"} -> "failure_modes"
      [] stage = "stabilize_feed" -> "stabilizer"
      [] OTHER -> "truncation"

\* the components a sequence of stages goes through, each run of stages of one
\* component counted once
RECURSIVE ComponentsOf(_)
ComponentsOf(stages) ==
    IF stages = <<>> THEN <<>>
    ELSE IF Len(stages) >= 2 /\ StageComponent(stages[1]) = StageComponent(stages[2])
    THEN ComponentsOf(Tail(stages))
    ELSE <<StageComponent(stages[1])>> \o ComponentsOf(Tail(stages))

\* C13: every feed request served went, after the ranking, through the
\* Exploration/Exploitation Manager, Engagement-Shaping, the Failure-Mode
\* Handler, the Feedback-Loop Stabilizer and the truncation, in this order and
\* once each
C13_StagesInStatedOrder ==
    FeedReturned
        => Tail(ComponentsOf(last.stages))
              = <<"exploration", "engagement_shaping", "failure_modes",
                  "stabilizer", "truncation">>

\* a feed served through the exploration manager, the failure-mode handler and
\* the truncation only, the truncation following suppress_spam
C13_StagesServed ==
    /\ FeedReturned
    /\ candidates # <<>>
    /\ ComponentsOf(last.stages)
          = <<"ranking", "exploration", "failure_modes", "truncation">>

\* the step is a call of process_interaction for a known user and a known video
\* that returned
InteractionStep ==
    /\ last'.op = "process_interaction"
    /\ nops' = nops + 1
    /\ last'.known
    /\ last'.error = "none"

\* C17: process_interaction for a known user and a known item applies one bandit
\* update to interaction.video_id with the reward watch_time * (1 - skip)
\* + 0.3 * like + 0.5 * share, and records the interaction in the item's
\* cold-start state as well
C17_InteractionUpdatesAllState ==
    (last.op = "process_interaction" /\ last.known)
        => /\ last.error = "none"
           /\ last.video_id \in DOMAIN arm_stats
           /\ arm_stats[last.video_id].log[Len(arm_stats[last.video_id].log)].reward
                 = last.reward
           /\ last.video_id \in DOMAIN video_states

\* where process_interaction returns, it has applied exactly one update, with
\* that reward, to the arm of interaction.video_id and to no other arm
C17_OneBanditUpdate ==
    [][InteractionStep
          => /\ arm_stats' = (last'.video_id :> arm_stats'[last'.video_id]) @@ arm_stats
             /\ Len(arm_stats'[last'.video_id].log)
                   = Len(ArmOf(arm_stats, last'.video_id).log) + 1
             /\ arm_stats'[last'.video_id].log[Len(arm_stats'[last'.video_id].log)].reward
                   = last'.reward]_vars

\* an interaction of a known user with a known video was processed: the bandit
\* has the arm, with the reward 0.5 * 1 + 0.3 of a half-watched like, and the
\* cold-start engine has no state for the video
C17_BanditOnly ==
    /\ last.op = "process_interaction"
    /\ last.known
    /\ last.error = "none"
    /\ last.reward = <<4, 5>>
    /\ arm_stats[last.video_id].log[1].reward = <<4, 5>>
    /\ last.video_id \notin DOMAIN video_states

-----------------------------------------------------------------------------
(* ContextualBandit.update and select_arms called from several threads      *)
(*                                                                         *)
(* The bandit has no lock.  Here arm_stats is the pair of dictionaries     *)
(* self.A and self.b, which update writes one after the other, and inputs  *)
(* holds each thread's position in its call: the steps are the membership  *)
(* test, the two initialisations and the two accumulations of update, and  *)
(* the membership test and the read of A and b of select_arms.  Every call *)
(* is for the same item.                                                   *)

MaxThreadOps == 3       \* calls begun per behaviour

Threads == {1, 2, 3}

SharedVideo == BanditVideo(2)

\* the calls of update the threads make: context and reward
ThreadCalls ==
    {[context |-> get_context(BanditUser(1), SharedVideo), reward |-> ROne],
     [context |-> get_context(BanditUser(2), SharedVideo), reward |-> <<3, 10>>]}

NoThreadCall == [context |-> Zeros(ContextDim), reward |-> RZero]

\* A and b after the calls in the order given, from nothing or from base
RECURSIVE SerialStats(_, _)
SerialStats(base, calls) ==
    IF calls = <<>> THEN base
    ELSE LET before == SerialStats(base, SubSeq(calls, 1, Len(calls) - 1))
             call == calls[Len(calls)]
         IN  [A |-> CovarianceAfter(before.A, call.context),
              b |-> RewardVectorAfter(before.b, call.context, call.reward)]

\* the same matrix, the same vector
SameStats(x, y) ==
    /\ \A i, j \in SupportOf(x.A) \cup SupportOf(y.A) :
          AEntry(x.A, i, j) = AEntry(y.A, i, j)
    /\ \A i \in DOMAIN x.b \cup DOMAIN y.b : BEntry(x.b, i) = BEntry(y.b, i)

\* the item is in no dictionary, or it has the statistics of one earlier update
ThreadInit ==
    /\ video_states = <<>>
    /\ cohort_baselines = <<>>
    /\ vf_meta = <<>>
    /\ user_embeddings = <<>>
    /\ candidates = <<>>
    /\ nops = 0
    /\ last = NoCall
    /\ \/ /\ arm_stats = [A |-> <<>>, b |-> <<>>]
          /\ inputs = [pc |-> [t \in Threads |-> "idle"],
                       call |-> [t \in Threads |-> NoThreadCall],
                       base |-> [A |-> <<>>, b |-> <<>>], returned |-> <<>>]
       \/ \E c \in ThreadCalls :
             LET base == SerialStats([A |-> <<>>, b |-> <<>>], <<c>>)
             IN  /\ arm_stats = [A |-> (SharedVideo.video_id :> base.A),
                                 b |-> (SharedVideo.video_id :> base.b)]
                 /\ inputs = [pc |-> [t \in Threads |-> "idle"],
                              call |-> [t \in Threads |-> NoThreadCall],
                              base |-> base, returned |-> <<>>]

threadFrame == <<coldVars, user_embeddings, candidates>>

\* thread t is at pc and moves to next
Goes(t, pc, next) ==
    /\ inputs.pc[t] = pc
    /\ inputs' = [inputs EXCEPT !.pc[t] = next]

\* a thread calls update: context = self._get_context(...)
BeginUpdate(t, c) ==
    /\ nops < MaxThreadOps
    /\ inputs.pc[t] = "idle"
    /\ inputs' = [inputs EXCEPT !.pc[t] = "test", !.call[t] = c]
    /\ nops' = nops + 1
    /\ UNCHANGED <<threadFrame, arm_stats, last>>

\* if video_id not in self.A:
TestMember(t) ==
    /\ Goes(t, "test",
            IF SharedVideo.video_id \in DOMAIN arm_stats.A THEN "add_A" ELSE "init_A")
    /\ UNCHANGED <<threadFrame, arm_stats, nops, last>>

\* self.A[video_id] = np.eye(self.context_dim)
InitA(t) ==
    /\ Goes(t, "init_A", "init_b")
    /\ arm_stats' = [arm_stats EXCEPT !.A = (SharedVideo.video_id :> <<>>) @@ @]
    /\ UNCHANGED <<threadFrame, nops, last>>

\* self.b[video_id] = np.zeros(self.context_dim)
InitB(t) ==
    /\ Goes(t, "init_b", "add_A")
    /\ arm_stats' = [arm_stats EXCEPT !.b = (SharedVideo.video_id :> <<>>) @@ @]
    /\ UNCHANGED <<threadFrame, nops, last>>

\* self.A[video_id] += np.outer(context, context)
AddA(t) ==
    /\ Goes(t, "add_A", "add_b")
    /\ arm_stats' = [arm_stats EXCEPT !.A[SharedVideo.video_id] =
                        CovarianceAfter(@, inputs.call[t].context)]
    /\ UNCHANGED <<threadFrame, nops, last>>

\* self.b[video_id] += reward * context: KeyError when the thread that found
\* the item absent has written A and not yet b
AddB(t) ==
    /\ inputs.pc[t] = "add_b"
    /\ IF SharedVideo.video_id \in DOMAIN arm_stats.b
       THEN /\ arm_stats' = [arm_stats EXCEPT !.b[SharedVideo.video_id] =
                               RewardVectorAfter(@, inputs.call[t].context,
                                                 inputs.call[t].reward)]
            /\ inputs' = [inputs EXCEPT !.pc[t] = "idle",
                                        !.returned = Append(@, inputs.call[t])]
            /\ last' = [op |-> "update", video_id |-> SharedVideo.video_id,
                        error |-> "none", thread |-> t]
       ELSE /\ inputs' = [inputs EXCEPT !.pc[t] = "idle"]
            /\ last' = [op |-> "update", video_id |-> SharedVideo.video_id,
                        error |-> "KeyError", thread |-> t]
            /\ UNCHANGED arm_stats
    /\ UNCHANGED <<threadFrame, nops>>

\* a thread calls select_arms with the item as its one candidate
BeginSelect(t) ==
    /\ nops < MaxThreadOps
    /\ Goes(t, "idle", "scan")
    /\ nops' = nops + 1
    /\ UNCHANGED <<threadFrame, arm_stats, last>>

\* if candidate.video_id not in self.A: the item is scored +inf and the call
\* returns; else the call goes on to the solve
ScanMember(t) ==
    /\ inputs.pc[t] = "scan"
    /\ IF SharedVideo.video_id \in DOMAIN arm_stats.A
       THEN /\ inputs' = [inputs EXCEPT !.pc[t] = "solve"]
            /\ UNCHANGED last
       ELSE /\ inputs' = [inputs EXCEPT !.pc[t] = "idle"]
            /\ last' = [op |-> "select_arms", video_id |-> SharedVideo.video_id,
                        error |-> "none", thread |-> t]
    /\ UNCHANGED <<threadFrame, arm_stats, nops>>

\* np.linalg.solve(self.A[candidate.video_id], self.b[candidate.video_id])
SolveArm(t) ==
    /\ Goes(t, "solve", "idle")
    /\ last' = [op |-> "select_arms", video_id |-> SharedVideo.video_id,
                error |-> IF SharedVideo.video_id \in DOMAIN arm_stats.b
                          THEN "none" ELSE "KeyError",
                thread |-> t]
    /\ UNCHANGED <<threadFrame, arm_stats, nops>>

ThreadNext ==
    \/ \E t \in Threads, c \in ThreadCalls : BeginUpdate(t, c)
    \/ \E t \in Threads : TestMember(t)
    \/ \E t \in Threads : InitA(t)
    \/ \E t \in Threads : InitB(t)
    \/ \E t \in Threads : AddA(t)
    \/ \E t \in Threads : AddB(t)
    \/ \E t \in Threads : BeginSelect(t)
    \/ \E t \in Threads : ScanMember(t)
    \/ \E t \in Threads : SolveArm(t)

SpecBanditThreads == ThreadInit /\ [][ThreadNext]_vars

\* no call is under way
AllIdle == \A t \in Threads : inputs.pc[t] = "idle"

\* the statistics of the item as the dictionaries hold them
SharedStats ==
    [A |-> arm_stats.A[SharedVideo.video_id], b |-> arm_stats.b[SharedVideo.video_id]]

\* C14: updates of one item are atomic: no call of update or select_arms ends in
\* an error, no select_arms finds the item with A and without b, and when every
\* call has returned the item's (A, b) is what the returned updates give in a
\* serial order (the sums commute: every order gives the same)
C14_UpdatesAtomicPerItem ==
    /\ last.op \in {"update", "select_arms"} => last.error = "none"
    /\ \A t \in Threads :
          inputs.pc[t] = "solve" => SharedVideo.video_id \in DOMAIN arm_stats.b
    /\ (AllIdle /\ inputs.returned # <<>>)
          => SameStats(SharedStats, SerialStats(inputs.base, inputs.returned))

\* two updates of an item without statistics have both returned without error
\* and the item holds the statistics of one of them only
C14_LostUpdate ==
    /\ AllIdle
    /\ Len(inputs.returned) = 2
    /\ last.error = "none"
    /\ \E i \in 1..2 :
          SameStats(SharedStats, SerialStats(inputs.base, <<inputs.returned[i]>>))
    /\ ~SameStats(SharedStats, SerialStats(inputs.base, inputs.returned))

\* a select_arms that found the item in A and not in b
C14_HalfInitialisedRead ==
    /\ last.op = "select_arms"
    /\ last.error = "KeyError"

\* for an item that has statistics before the calls begin, the interleaved
\* updates leave what the serial ones leave
C14_SerialWhenPresent ==
    (AllIdle /\ inputs.base.A # <<>> /\ inputs.returned # <<>>)
        => SameStats(SharedStats, SerialStats(inputs.base, inputs.returned))

\* the step is a call of generate_feed
FeedStep == last'.op = "generate_feed" /\ nops' = nops + 1

\* what the pipeline keeps between requests: the bandit statistics, the
\* cold-start states and baselines, and the user, video and content tables
durableVars == <<arm_stats, coldVars, user_embeddings, inputs>>

\* C15: a call of generate_feed, for a known or an unknown user_id, leaves the
\* bandit statistics, the cold-start states and cohort baselines and the
\* user_embeddings, video_features and content_embeddings tables as they were
C15_FeedMutatesNothing ==
    [][FeedStep => UNCHANGED durableVars]_vars

\* a call of generate_feed for a user the table holds leaves all of it as it was
C15_KnownUserMutatesNothing ==
    [][(FeedStep /\ last'.user_id \in DOMAIN user_embeddings)
          => UNCHANGED durableVars]_vars

\* a call for an unknown user has raised and the table holds the user it made
C15_ColdStartUserStored ==
    /\ last.op = "generate_feed"
    /\ last.error # "none"
    /\ last.user_id \notin DOMAIN SmallWorld.users
    /\ last.user_id \in DOMAIN user_embeddings
    /\ user_embeddings[last.user_id] = create_cold_start_user(last.user_id)

-----------------------------------------------------------------------------
(* Engagement shaping (src/lib/addiction/addiction_engine.py)              *)
(*                                                                         *)
(* A candidate list is a list of references to RankingCandidate objects:   *)
(* _apply_cliffhangers can put one object into the list twice, and every   *)
(* `candidate.ranking_score *= f` acts on the object.  objs is the objects, *)
(* refs the list as indices into objs.                                     *)

ObsessionMinInteractions == 5       \* detect_obsession: len(recent_interactions) < 5
ObsessionWindow == 10               \* recent_interactions[-10:]
PacingMinLen == 3                   \* _apply_pacing: len(candidates) < 3
CliffhangerMinLen == 5              \* _apply_cliffhangers: len(candidates) < 5

CliffhangerPositions == <<3, 7, 12, 18>>

\* the sign of np.dot(a, b) / (norm(a) * norm(b)) for vectors of one entry, where
\* the quotient is 1.0 or -1.0; nan when one of the two is the zero vector
CosineOfOne(a, b) ==
    [nan |-> a[1] = 0 \/ b[1] = 0,
     v   |-> IF (a[1] > 0) = (b[1] > 0) THEN 1 ELSE -1]

\* the embeddings of the last 10 interactions whose video has one
RecentEmbeddings(recent_interactions, content_embeddings) ==
    LET recent == LastN(recent_interactions, ObsessionWindow)
    IN  SelectSeq([i \in 1..Len(recent) |->
                     IF recent[i].video_id \in DOMAIN content_embeddings
                     THEN <<content_embeddings[recent[i].video_id]>> ELSE <<>>],
                  LAMBDA e : e # <<>>)

\* ObsessionLoopDetector.detect_obsession over embeddings of one entry: the
\* centroid is their mean, kept as the sum (the cosine only needs its sign);
\* avg_similarity > 0.85, false when a similarity is nan
detect_obsession(recent_interactions, content_embeddings) ==
    IF Len(recent_interactions) < ObsessionMinInteractions
    THEN [found |-> FALSE, centroid |-> <<0>>]
    ELSE LET recent_embeddings == RecentEmbeddings(recent_interactions,
                                                   content_embeddings)
             n == Len(recent_embeddings)
             centroid == <<SumSeq([i \in 1..n |-> recent_embeddings[i][1][1]])>>
             similarities == [i \in 1..n |->
                                CosineOfOne(recent_embeddings[i][1], centroid)]
         IN  IF n < ObsessionMinInteractions
             THEN [found |-> FALSE, centroid |-> <<0>>]
             ELSE [found |-> /\ \A i \in 1..n : ~similarities[i].nan
                             /\ 100 * SumSeq([i \in 1..n |-> similarities[i].v])
                                   > 85 * n,
                   centroid |-> centroid]

\* candidate.ranking_score *= factors[i] for the i-th entry of refs, in turn
RECURSIVE ScaleEach(_, _, _)
ScaleEach(objs, refs, factors) ==
    IF refs = <<>> THEN objs
    ELSE ScaleEach([objs EXCEPT ![Head(refs)].ranking_score =
                        ScoreTimes(@, Head(factors))],
                   Tail(refs), Tail(factors))

\* candidates.sort(key=ranking_score, reverse=True) / sorted(...): stable
SortRefs(objs, refs) ==
    LET keyed == SortDescending(AsTuple([i \in 1..Len(refs) |->
                                  [ref |-> refs[i],
                                   ranking_score |-> objs[refs[i]].ranking_score]],
                               Len(refs)))
    IN  AsTuple([i \in 1..Len(refs) |-> keyed[i].ref], Len(refs))

\* the factor of apply_obsession_boost: boost_factor 2.0 when similarity > 0.8
\* (for one entry the similarity is 1.0, -1.0 or nan)
ObsessionFactor(video_id, centroid, content_embeddings) ==
    IF video_id \notin DOMAIN content_embeddings THEN ROne
    ELSE LET similarity == CosineOfOne(content_embeddings[video_id], centroid)
         IN  IF ~similarity.nan /\ similarity.v = 1 THEN <<2, 1>> ELSE ROne

\* ObsessionLoopDetector.apply_obsession_boost
apply_obsession_boost(s, centroid, content_embeddings) ==
    LET boosted == ScaleEach(s.objs, s.refs,
                             [i \in 1..Len(s.refs) |->
                                ObsessionFactor(s.objs[s.refs[i]].video_id, centroid,
                                                content_embeddings)])
    IN  [objs |-> boosted, refs |-> SortRefs(boosted, s.refs)]

\* the loop of _apply_pacing; i, high_idx and medium_idx count from 0
RECURSIVE PacingLoop(_, _, _, _, _)
PacingLoop(sorted, i, high_idx, medium_idx, paced) ==
    IF i = Len(sorted) THEN paced
    ELSE IF i % 2 = 0 /\ high_idx < Len(sorted) \div 2
    THEN PacingLoop(sorted, i + 1, high_idx + 1, medium_idx,
                    Append(paced, sorted[high_idx + 1]))
    ELSE IF medium_idx < Len(sorted)
    THEN PacingLoop(sorted, i + 1, high_idx, medium_idx + 1,
                    Append(paced, sorted[medium_idx + 1]))
    ELSE IF high_idx < Len(sorted) \div 2
    THEN PacingLoop(sorted, i + 1, high_idx + 1, medium_idx,
                    Append(paced, sorted[high_idx + 1]))
    ELSE PacingLoop(sorted, i + 1, high_idx, medium_idx, paced)

\* SessionContinuationMaximizer._apply_pacing
apply_pacing(objs, refs) ==
    IF Len(refs) < PacingMinLen THEN refs
    ELSE PacingLoop(SortRefs(objs, refs), 0, 0, Len(refs) \div 2, <<>>)

\* the loop of _apply_cliffhangers from the i-th position on, i from 0
RECURSIVE CliffhangerLoop(_, _, _)
CliffhangerLoop(top_candidates, result, i) ==
    IF i = Len(CliffhangerPositions) THEN result
    ELSE CliffhangerLoop(top_candidates,
                         IF i < Len(top_candidates)
                               /\ CliffhangerPositions[i + 1] < Len(result)
                         THEN InsertAt(result, CliffhangerPositions[i + 1],
                                       top_candidates[i + 1])
                         ELSE result,
                         i + 1)

\* the insertions made and the list left as long as they made it
apply_cliffhangers_untruncated(objs, refs) ==
    IF Len(refs) < CliffhangerMinLen THEN refs
    ELSE CliffhangerLoop(SortRefs(objs, refs), refs, 0)

\* SessionContinuationMaximizer._apply_cliffhangers
apply_cliffhangers(objs, refs) ==
    IF Len(refs) < CliffhangerMinLen THEN refs
    ELSE FirstN(CliffhangerLoop(SortRefs(objs, refs), refs, 0), Len(refs))

\* 1.3 when continuation_score > 0.7, 1.15 when it is > 0.5
ContinuationFactor(continuation_score) ==
    IF RLess(<<7, 10>>, continuation_score) THEN <<13, 10>>
    ELSE IF RLess(<<1, 2>>, continuation_score) THEN <<23, 20>>
    ELSE ROne

\* SessionContinuationMaximizer._apply_continuation_hooks
apply_continuation_hooks(objs, refs) ==
    LET hooked == ScaleEach(objs, refs,
                            [i \in 1..Len(refs) |->
                               ContinuationFactor(objs[refs[i]].continuation_score)])
    IN  [objs |-> hooked, refs |-> SortRefs(hooked, refs)]

\* SessionContinuationMaximizer.optimize_for_continuation
optimize_for_continuation(s) ==
    apply_continuation_hooks(s.objs,
                             apply_cliffhangers(s.objs, apply_pacing(s.objs, s.refs)))

\* step 1 of maximize_engagement: *= 1.2 where should_show_high_reward, which
\* compares random.random() with a probability strictly between 0 and 1,
\* returned True
WithVariableReward(cands, high_reward) ==
    [objs |-> ScaleEach(cands, [i \in 1..Len(cands) |-> i],
                        [i \in 1..Len(cands) |->
                           IF high_reward[i] THEN <<6, 5>> ELSE ROne]),
     refs |-> [i \in 1..Len(cands) |-> i]]

\* step 2: the obsession boost, if an obsession was detected
WithObsession(s, obsession_info, content_embeddings) ==
    IF obsession_info.found
    THEN apply_obsession_boost(s, obsession_info.centroid, content_embeddings)
    ELSE s

\* step 4 and the final sort: *= 1.5 for candidates[:5] when fatigue_score > 0.7
WithAntiFatigue(s, fatigue_score) ==
    LET top == FirstN(s.refs, 5)
        objs == IF RLess(<<7, 10>>, fatigue_score)
                THEN ScaleEach(s.objs, top, [i \in 1..Len(top) |-> <<3, 2>>])
                ELSE s.objs
        refs == SortRefs(objs, s.refs)
    IN  AsTuple([i \in 1..Len(refs) |-> objs[refs[i]]], Len(refs))

\* EngagementMaximizer.maximize_engagement; high_reward[i] is what
\* should_show_high_reward returned for the i-th candidate
maximize_engagement(cands, high_reward, fatigue_score, recent_interactions, content_embeddings) ==
    WithAntiFatigue(
        optimize_for_continuation(
            WithObsession(WithVariableReward(cands, high_reward),
                          detect_obsession(recent_interactions, content_embeddings),
                          content_embeddings)),
        fatigue_score)

-----------------------------------------------------------------------------
(* Feedback-loop stabilizer (src/lib/utils/online_learning.py)             *)

\* FeedbackLoopStabilizer._enforce_diversity: the similarity filter of
\* enforce_temporal_diversity; `if video_id and ...` takes video_id 0 as absent
stabilizer_enforce_diversity(cands, content_embeddings) ==
    TemporalLoop(cands, {},
                 [v \in DOMAIN content_embeddings \ {0} |-> content_embeddings[v]],
                 <<>>, <<>>)

\* FeedbackLoopStabilizer._filter_recent_repeats
filter_recent_repeats(cands, user_history) ==
    LET recent == LastN(user_history, TemporalWindow)
    IN  SelectSeq(cands,
                  LAMBDA c : c.video_id \notin {recent[i].video_id : i \in 1..Len(recent)})

\* FeedbackLoopStabilizer.stabilize; _balance_categories is the loop of
\* enforce_category_diversity
stabilize(cands, user_history, content_embeddings) ==
    CategoryLoop(filter_recent_repeats(
                     stabilizer_enforce_diversity(cands, content_embeddings),
                     user_history),
                 <<>>, <<>>)

\* LoopExploitationDetector.detect over embeddings of one entry: the mean of the
\* pairwise similarities of the last 20 interactions' embeddings is > 0.8
loop_detect(recent_interactions, content_embeddings) ==
    IF Len(recent_interactions) < ObsessionMinInteractions THEN FALSE
    ELSE LET recent == LastN(recent_interactions, TemporalWindow)
             with == {i \in 1..Len(recent) : recent[i].video_id \in DOMAIN content_embeddings}
             pairs == {p \in with \X with : p[1] < p[2]}
             Sim(p) == CosineOfOne(content_embeddings[recent[p[1]].video_id],
                                   content_embeddings[recent[p[2]].video_id])
         IN  /\ Cardinality(with) >= ObsessionMinInteractions
             /\ \A p \in pairs : ~Sim(p).nan
             /\ 10 * (Cardinality({p \in pairs : Sim(p).v = 1})
                         - Cardinality({p \in pairs : Sim(p).v = -1}))
                   > 8 * Cardinality(pairs)

-----------------------------------------------------------------------------
(* The list stages and the detectors, each called on its own.  As in a     *)
(* request, a stage is called at most once on the list: inputs.called is   *)
(* the stages called so far.                                               *)

MaxStageOps == 1        \* calls per behaviour

\* a RankingCandidate with its continuation_score
StageCandidate(video_id, score, continuation_score) ==
    [f \in {"continuation_score"} |-> continuation_score]
        @@ CandidateOf(SmallVideos[video_id], Plain(score))

\* no list, a list of three that is not in score order, a list of six, and
\* the eight videos in score order
StageLists ==
    {<<>>,
     [i \in 1..8 |-> StageCandidate(i, <<9 - i, 1>>, IF i = 2 THEN <<3, 5>> ELSE RZero)],
     <<StageCandidate(1, <<1, 4>>, <<4, 5>>), StageCandidate(2, <<3, 4>>, <<3, 5>>),
       StageCandidate(6, <<1, 2>>, <<0, 1>>)>>,
     <<StageCandidate(1, <<6, 1>>, <<4, 5>>), StageCandidate(2, <<5, 1>>, <<0, 1>>),
       StageCandidate(3, <<4, 1>>, <<0, 1>>), StageCandidate(4, <<3, 1>>, <<3, 5>>),
       StageCandidate(5, <<2, 1>>, <<0, 1>>), StageCandidate(6, <<1, 1>>, <<0, 1>>)>>}

\* one interaction with video 101 watched to the end, after four skips of video 5
OneWatchedHistory ==
    [i \in 1..4 |-> InteractionOf(1, 5, <<1, 10>>, TRUE, FALSE, FALSE)]
        \o <<Watched(101)>>

\* no history, four interactions (below every minimum of 5), five watched to
\* the end, and five of which one was
StageHistories == {<<>>, FirstN(WatchedHistory, 4), WatchedHistory, OneWatchedHistory}

\* interactions of video 1: none, four likes, nine likes, twenty likes
StageInteractionMaps ==
    {<<>>, (1 :> SmallBatch),
     (1 :> FirstN(LikeBatch(0, 0, TRUE, TRUE, TRUE), 9)),
     (1 :> LikeBatch(0, 0, TRUE, TRUE, TRUE))}

\* what should_show_high_reward returned for each of n candidates: for none,
\* for all, for every second
HighRewardDraws(n) ==
    {[i \in 1..n |-> FALSE], [i \in 1..n |-> TRUE], [i \in 1..n |-> i % 2 = 1]}

StageInit ==
    /\ video_states = <<>>
    /\ cohort_baselines = <<>>
    /\ vf_meta = <<>>
    /\ arm_stats = <<>>
    /\ user_embeddings = (1 :> SmallUser)
    /\ candidates \in StageLists
    /\ inputs \in [user_history : StageHistories,
                   content_embeddings : {SmallWorld.content_embeddings},
                   video_interactions : StageInteractionMaps,
                   session_length : {0, 20},
                   fatigue_score : {RZero, <<4, 5>>},
                   called : {{}}]
    /\ nops = 0
    /\ last = NoCall

\* a stage was called on the current list and returned (or raised)
StageCalled(op, error, returned) ==
    /\ nops < MaxStageOps
    /\ op \notin inputs.called
    /\ inputs' = [inputs EXCEPT !.called = @ \cup {op}]
    /\ candidates' = returned
    /\ last' = [op |-> op, video_id |-> 0, input |-> candidates, error |-> error,
                obsession |-> detect_obsession(inputs.user_history,
                                               inputs.content_embeddings).found]
    /\ nops' = nops + 1
    /\ UNCHANGED engineVars

\* a call that returns the error of r, or its list
StageResult(op, r) == StageCalled(op, r.error, r.ranked)

StageProcessCandidates ==
    LET r == process_candidates(arm_stats, user_embeddings[1], candidates,
                                inputs.user_history, inputs.content_embeddings,
                                inputs.session_length, 2)
    IN  /\ nops < MaxStageOps
        /\ "process_candidates" \notin inputs.called
        /\ inputs' = [inputs EXCEPT !.called = @ \cup {"process_candidates"}]
        /\ candidates' = r.ranked
        /\ last' = [op |-> "process_candidates", video_id |-> 0,
                    input |-> candidates, error |-> r.error,
                    obsession |-> detect_obsession(inputs.user_history,
                                                   inputs.content_embeddings).found,
                    boosted |-> BoostedIds(candidates, inputs.user_history,
                                           inputs.content_embeddings,
                                           inputs.session_length)]
        /\ nops' = nops + 1
        /\ UNCHANGED engineVars

StageSelectArms ==
    StageResult("select_arms", select_arms(arm_stats, user_embeddings[1], candidates, 4))

StageInjectNovelty ==
    StageCalled("inject_novelty", "none",
                inject_novelty(candidates, inputs.user_history,
                               inputs.content_embeddings, inputs.session_length))

StageMaximizeEngagement ==
    \E high_reward \in HighRewardDraws(Len(candidates)) :
        StageCalled("maximize_engagement", "none",
                    maximize_engagement(candidates, high_reward, inputs.fatigue_score,
                                        inputs.user_history, inputs.content_embeddings))

StageEnforceDiversity ==
    StageCalled("enforce_diversity", "none",
                enforce_diversity(candidates, inputs.user_history,
                                  inputs.content_embeddings))

StageSuppressSpam ==
    StageCalled("suppress_spam", "none",
                suppress_spam(candidates, inputs.video_interactions))

StageStabilize ==
    StageCalled("stabilize", "none",
                stabilize(candidates, inputs.user_history, inputs.content_embeddings))

\* the list of the objects that refs names
Deref(objs, refs) == AsTuple([i \in 1..Len(refs) |-> objs[refs[i]]], Len(refs))

IdentityRefs(cands) == [i \in 1..Len(cands) |-> i]

\* SessionContinuationMaximizer.optimize_for_continuation on the current list
StageOptimizeForContinuation ==
    LET r == optimize_for_continuation([objs |-> candidates,
                                        refs |-> IdentityRefs(candidates)])
    IN  StageCalled("optimize_for_continuation", "none", Deref(r.objs, r.refs))

\* SessionContinuationMaximizer._apply_pacing on the current list
StageApplyPacing ==
    StageCalled("apply_pacing", "none",
                Deref(candidates, apply_pacing(candidates, IdentityRefs(candidates))))

\* SessionContinuationMaximizer._apply_cliffhangers on the current list
StageApplyCliffhangers ==
    StageCalled("apply_cliffhangers", "none",
                Deref(candidates, apply_cliffhangers(candidates, IdentityRefs(candidates))))

\* a detector was called: what it was given and what it reported
DetectorCalled(op, n, detected) ==
    /\ nops < MaxStageOps
    /\ last' = [op |-> op, video_id |-> 0, n |-> n, detected |-> detected]
    /\ nops' = nops + 1
    /\ UNCHANGED <<engineVars, candidates, inputs>>

DetectObsession ==
    DetectorCalled("detect_obsession", Len(inputs.user_history),
                   detect_obsession(inputs.user_history, inputs.content_embeddings).found)

DetectLoop ==
    DetectorCalled("loop_detect", Len(inputs.user_history),
                   loop_detect(inputs.user_history, inputs.content_embeddings))

\* the three signals of EngagementFarmingDetector on a video's interactions
DetectSignals ==
    \E v \in DOMAIN inputs.video_interactions :
        \/ DetectorCalled("has_bot_pattern", Len(inputs.video_interactions[v]),
                          has_bot_pattern(inputs.video_interactions[v]))
        \/ DetectorCalled("has_engagement_farming", Len(inputs.video_interactions[v]),
                          has_engagement_farming(inputs.video_interactions[v]))
        \/ DetectorCalled("has_coordinated_activity", Len(inputs.video_interactions[v]),
                          has_coordinated_activity(inputs.video_interactions[v]))

StageNext ==
    \/ StageProcessCandidates
    \/ StageSelectArms
    \/ StageInjectNovelty
    \/ StageMaximizeEngagement
    \/ StageEnforceDiversity
    \/ StageSuppressSpam
    \/ StageStabilize
    \/ StageOptimizeForContinuation
    \/ StageApplyPacing
    \/ StageApplyCliffhangers
    \/ DetectObsession
    \/ DetectLoop
    \/ DetectSignals

SpecStages == StageInit /\ [][StageNext]_vars

-----------------------------------------------------------------------------
(* Properties of the stages on degenerate inputs                           *)

StageOps ==
    {"process_candidates", "select_arms", "inject_novelty", "maximize_engagement",
     "enforce_diversity", "suppress_spam", "stabilize"}

\* a list stage given the empty list returned the empty list, without error
EmptyInEmptyOut ==
    (last.op \in StageOps /\ last.input = <<>>)
        => (candidates = <<>> /\ last.error = "none")

\* a detector given fewer interactions than its minimum reported nothing
SilentBelowMinimum ==
    /\ (last.op \in {"detect_obsession", "loop_detect"}
           /\ last.n < ObsessionMinInteractions) => ~last.detected
    /\ (last.op = "has_bot_pattern" /\ last.n < BotMinInteractions) => ~last.detected
    /\ (last.op = "has_engagement_farming" /\ last.n < FarmingMinInteractions)
          => ~last.detected
    /\ (last.op = "has_coordinated_activity" /\ last.n < CoordinatedThreshold)
          => ~last.detected

\* suppress_spam was called and no candidate's video had 5 interactions
SpamBelowMinimum ==
    /\ last.op = "suppress_spam"
    /\ \A i \in 1..Len(last.input) :
          last.input[i].video_id \in DOMAIN inputs.video_interactions
             => Len(inputs.video_interactions[last.input[i].video_id])
                   < BotMinInteractions

\* maximize_engagement was called with fewer than 5 recent interactions
ObsessionBelowMinimum ==
    /\ last.op = "maximize_engagement"
    /\ Len(inputs.user_history) < ObsessionMinInteractions

\* C16 as stated: the empty list gives the empty list, a detector below its
\* minimum reports nothing, and the stage that uses the detector then returns
\* its input unchanged
C16_DegenerateInputUnchanged ==
    /\ EmptyInEmptyOut
    /\ SilentBelowMinimum
    /\ SpamBelowMinimum => candidates = last.input
    /\ ObsessionBelowMinimum => candidates = last.input

\* C16 amended: the empty list gives the empty list without error, a detector
\* below its minimum reports nothing, and the stage that uses the detector then
\* skips only the step the detector guards: suppress_spam applies no penalty and
\* still sorts (its result is the stable descending sort of its input), and
\* maximize_engagement applies no obsession boost and still runs its variable
\* reward, pacing, cliffhanger, continuation and anti-fatigue steps
C16_DegenerateStepSkipped ==
    /\ EmptyInEmptyOut
    /\ SilentBelowMinimum
    /\ SpamBelowMinimum => candidates = SortDescending(last.input)
    /\ ObsessionBelowMinimum
          => /\ ~last.obsession
             /\ \E high_reward \in HighRewardDraws(Len(last.input)) :
                   candidates = WithAntiFatigue(
                                    optimize_for_continuation(
                                        WithVariableReward(last.input, high_reward)),
                                    inputs.fatigue_score)

\* C16 witness: suppress_spam on a list that is not in score order, whose first
\* candidate's video has four interactions: no penalty, and the list comes back
\* sorted, which is not the list given
C16_Witness ==
    /\ SpamBelowMinimum
    /\ last.input # <<>>
    /\ last.input[1].video_id \in DOMAIN inputs.video_interactions
    /\ inputs.video_interactions[last.input[1].video_id] # <<>>
    /\ candidates # last.input
    /\ candidates = SortDescending(last.input)

\* maximize_engagement with four recent interactions and no fatigue returned
\* scores other than the ones it was given
C16_ShapedBelowMinimum ==
    /\ ObsessionBelowMinimum
    /\ Len(inputs.user_history) = 4
    /\ last.input # <<>>
    /\ \E i \in 1..Len(candidates) :
          \A j \in 1..Len(last.input) :
              candidates[i].ranking_score # last.input[j].ranking_score

\* every stage was given the empty list and returned it
C16_EmptyThroughStage ==
    /\ last.op \in StageOps
    /\ last.input = <<>>
    /\ candidates = <<>>

\* with five interactions the obsession detector does report
C16_ObsessionAtMinimum ==
    /\ last.op = "detect_obsession"
    /\ last.n = ObsessionMinInteractions
    /\ last.detected

-----------------------------------------------------------------------------
(* Further properties of the cold-start engine                             *)

\* no entry of s occurs at two positions
DuplicateFree(s) == Cardinality(SeqToSet(s)) = Len(s)

ExposureOps == {"initial_exposure", "process_new_video"}

C18_SmallPool ==
    /\ last.op = "initial_exposure"
    /\ Len(last.user_pool) = 1
    /\ last.ret_users = <<1>>

ExpansionOps == {"viral_expansion", "update_from_interactions"}

\* the growth of the item's exposure_count over the last call
ExposureGrowth ==
    IF HasState(video_states, last.video_id)
    THEN video_states[last.video_id].exposure_count - last.pre_exposure
    ELSE 0

\* C19: every user viral_expansion returns is in user_pool and was neither in
\* the item's initial cohort nor returned by an earlier expansion of the item,
\* and no more users are returned than exposure_count grew by
C19_ExpansionUsersNew ==
    last.op \in ExpansionOps
        => /\ \A i \in 1..Len(last.ret_users) :
                 /\ last.ret_users[i] \in SeqToSet(last.user_pool)
                 /\ last.ret_users[i] \notin last.pre_exposed
           /\ Len(last.ret_users) <= Max(0, ExposureGrowth)

\* the part that holds: the users returned are in user_pool, and are no more than
\* exposure_count grew by
C19_FromPoolWithinGrowth ==
    last.op \in ExpansionOps
        => /\ SeqToSet(last.ret_users) \subseteq SeqToSet(last.user_pool)
           /\ Len(last.ret_users) <= Max(0, ExposureGrowth)

\* a first expansion returned members of the item's initial cohort
C19_CohortMemberReturned ==
    /\ last.op = "viral_expansion"
    /\ last.pre_stage = "initial"
    /\ \E i \in 1..Len(last.ret_users) :
          last.ret_users[i] \in SeqToSet(video_states[last.video_id].cohort)

\* a later expansion returned users an earlier expansion had returned
C19_ReturnedAgain ==
    /\ last.op = "viral_expansion"
    /\ last.pre_stage = "expanding"
    /\ \E i \in 1..Len(last.ret_users) :
          last.ret_users[i] \in last.pre_exposed \ SeqToSet(video_states[last.video_id].cohort)

-----------------------------------------------------------------------------
(* select_arms and items without statistics                                *)

NoStatistics(candidate) == candidate.video_id \notin DOMAIN arm_stats

\* what select_arms is to return: min(k, n) of the candidates it was given,
\* those without statistics at +infinity, marked as exploration and ahead of
\* every candidate with statistics, the scores not increasing along the list
ExplorationFirst ==
    /\ Len(candidates) = Min(last.k, Len(last.input))
    /\ \A i \in 1..Len(candidates) :
          /\ \E j \in 1..Len(last.input) :
                candidates[i].video_id = last.input[j].video_id
          /\ NoStatistics(candidates[i])
                => /\ candidates[i].ranking_score = Infinite
                   /\ candidates[i].is_exploration
    /\ \A i, j \in 1..Len(candidates) :
          (NoStatistics(candidates[i]) /\ ~NoStatistics(candidates[j])) => i < j
    /\ \A i \in 1..(Len(candidates) - 1) :
          ScoreLeq(candidates[i + 1].ranking_score, candidates[i].ranking_score)

\* C20: a call of select_arms with a candidate whose item has no bandit
\* statistics is not an error: the candidate gets +infinity and is_exploration,
\* precedes every candidate with statistics, and the list returned holds
\* min(k, number of candidates) of the candidates in non-increasing score order
C20_NoStatisticsNeverAnError ==
    (last.op = "select_arms"
        /\ \E i \in 1..Len(last.input) : NoStatistics(last.input[i]))
        => (last.error = "none" /\ ExplorationFirst)

\* where select_arms returns, for k >= 0, the list is as stated
C20_ExplorationFirstWhereReturned ==
    (last.op = "select_arms" /\ last.error = "none" /\ last.k >= 0)
        => ExplorationFirst

\* select_arms raised on a call whose candidates include one without statistics
C20_RaisedWithoutStatistics ==
    /\ last.op = "select_arms"
    /\ last.error = "ValueError"
    /\ \E i \in 1..Len(last.input) :
          /\ NoStatistics(last.input[i])
          /\ ContextRaises(BanditUser(last.user_id), last.input[i].video_features)

\* select_arms returned a candidate without statistics ahead of one with
C20_ExplorationAhead ==
    /\ last.op = "select_arms"
    /\ last.error = "none"
    /\ Len(candidates) = 2
    /\ NoStatistics(candidates[1])
    /\ candidates[1].ranking_score = Infinite
    /\ ~NoStatistics(candidates[2])
    /\ last.input[1].video_id = candidates[2].video_id

-----------------------------------------------------------------------------
(* Growth of the bandit statistics                                         *)

\* arm1 is arm0 after one rank-1 update: outer(context, context) added to A and
\* reward * context added to b, entry by entry, for the context and the reward
\* of the update logged last
GrownByOneUpdate(arm0, arm1) ==
    /\ Len(arm1.log) = Len(arm0.log) + 1
    /\ SubSeq(arm1.log, 1, Len(arm0.log)) = arm0.log
    /\ LET e == arm1.log[Len(arm1.log)]
           S == SupportOf(arm0.A) \cup SupportOf(arm1.A) \cup DOMAIN arm0.b
                   \cup DOMAIN arm1.b \cup DOMAIN e.context.nz
       IN  /\ \A i, j \in S :
                  AEntry(arm1.A, i, j)
                     = AEntry(arm0.A, i, j) + At(e.context.nz, i) * At(e.context.nz, j)
           /\ \A i \in S :
                  BEntry(arm1.b, i)
                     = RAdd(BEntry(arm0.b, i), RMul(e.reward, <<At(e.context.nz, i), 1>>))

\* C21: bandit statistics only grow: over every call an item that has statistics
\* keeps them, each item's statistics are either untouched or grown by one
\* rank-1 update, the first update of an item starting from (identity, zero
\* vector), and select_arms changes no statistics
C21_StatisticsOnlyGrow ==
    [][/\ DOMAIN arm_stats \subseteq DOMAIN arm_stats'
       /\ \A v \in DOMAIN arm_stats' :
             \/ v \in DOMAIN arm_stats /\ arm_stats'[v] = arm_stats[v]
             \/ GrownByOneUpdate(ArmOf(arm_stats, v), arm_stats'[v])
       /\ last'.op = "select_arms" => arm_stats' = arm_stats]_vars

\* an item was updated twice and select_arms then scored it: its A is the
\* identity plus two outer products and its b the sum of two rewards
C21_Witness ==
    /\ last.op = "select_arms"
    /\ last.error = "none"
    /\ \E v \in DOMAIN arm_stats :
          /\ Len(arm_stats[v].log) = 2
          /\ \E i \in 1..Len(last.input) : last.input[i].video_id = v
          /\ \E i \in SupportOf(arm_stats[v].A) : AEntry(arm_stats[v].A, i, i) = 3
          /\ \E i \in DOMAIN arm_stats[v].b : arm_stats[v].b[i] = <<13, 10>>

-----------------------------------------------------------------------------
(* Fast taste discovery in process_candidates                              *)

\* C22: process_candidates boosts a score only when session_length < 10 and
\* the history holds at least 5 high-engagement interactions (watch_time > 0.5,
\* not skipped): otherwise no candidate's score is boosted
C22_BoostNeedsFiveHighEngagement ==
    (last.op = "process_candidates"
        /\ (inputs.session_length >= TasteSessionLength
               \/ Len(HighEngagement(inputs.user_history)) < MinInteractions))
        => last.boosted = {}

\* what the boost does need: an early session, five interactions in the history
\* and one of them of high engagement
C22_BoostNeedsFiveInteractions ==
    (last.op = "process_candidates" /\ last.boosted # {})
        => /\ inputs.session_length < TasteSessionLength
           /\ Len(inputs.user_history) >= MinInteractions
           /\ Len(HighEngagement(inputs.user_history)) >= 1

\* a boost after a history of five interactions of which one was of high
\* engagement
C22_BoostedAfterOne ==
    /\ last.op = "process_candidates"
    /\ inputs.session_length = 0
    /\ Len(inputs.user_history) = MinInteractions
    /\ Len(HighEngagement(inputs.user_history)) = 1
    /\ 2 \in last.boosted

\* no boost late in the session, whatever the history
C22_NoBoostLate ==
    /\ last.op = "process_candidates"
    /\ inputs.session_length = 20
    /\ Len(HighEngagement(inputs.user_history)) = MinInteractions
    /\ last.boosted = {}
    /\ Len(last.input) > 0

-----------------------------------------------------------------------------
(* Further properties of the diversity stage                               *)

\* the entries of s at the positions in K, in the order of s
Restricted(s, K) ==
    LET F[n \in 0..Len(s)] ==
            IF n = 0 THEN <<>>
            ELSE IF n \in K THEN Append(F[n - 1], s[n]) ELSE F[n - 1]
    IN  F[Len(s)]

\* the video ids of the last 20 interactions
RecentVideoIds(recent_interactions) ==
    {recent_interactions[i].video_id :
        i \in {j \in 1..Len(recent_interactions) :
                 j > Len(recent_interactions) - TemporalWindow}}

\* both candidates have an embedding and their similarity is above 0.7
SimilarPair(a, b, content_embeddings) ==
    /\ a.video_id \in DOMAIN content_embeddings
    /\ b.video_id \in DOMAIN content_embeddings
    /\ CosineAbove(content_embeddings[a.video_id], content_embeddings[b.video_id], 7, 10)

\* K are the positions of cands that the temporal filter keeps: a candidate is
\* left out exactly if it was watched recently or is similar to a candidate
\* kept before it
TemporalKeeps(cands, K, recent_interactions, content_embeddings) ==
    \A i \in 1..Len(cands) :
        i \notin K <=>
            \/ cands[i].video_id \in RecentVideoIds(recent_interactions)
            \/ \E j \in K : j < i /\ SimilarPair(cands[i], cands[j], content_embeddings)

\* C23: enforce_temporal_diversity returns its input restricted, in order, to
\* the candidates that were not among the last 20 interactions and are not
\* similar (above 0.7) to a candidate kept before them: nothing recent is in it,
\* no two of its candidates with embeddings are similar, of similar candidates
\* the first in input order is kept, and a candidate without an embedding leaves
\* only by the recently-watched rule
C23_TemporalDiversity ==
    last.op = "enforce_diversity"
        => /\ \E K \in SUBSET (1..Len(last.input)) :
                 /\ last.temporal = Restricted(last.input, K)
                 /\ TemporalKeeps(last.input, K, inputs.user_history,
                                  inputs.content_embeddings)
           /\ \A i \in 1..Len(last.temporal) :
                 /\ last.temporal[i].video_id \notin RecentVideoIds(inputs.user_history)
                 /\ \A j \in 1..(i - 1) :
                       ~SimilarPair(last.temporal[i], last.temporal[j],
                                    inputs.content_embeddings)
           /\ \A i \in 1..Len(last.input) :
                 (/\ last.input[i].video_id \notin DOMAIN inputs.content_embeddings
                  /\ last.input[i].video_id \notin RecentVideoIds(inputs.user_history))
                     => \E j \in 1..Len(last.temporal) : last.temporal[j] = last.input[i]

\* the list 4, 2, 1, 5 after an interaction with video 4: video 4 is stripped as
\* recently watched, video 1 as similar to video 2 kept before it, and video 5,
\* which has no embedding, stays
C23_Witness ==
    /\ last.op = "enforce_diversity"
    /\ last.pass = 1
    /\ [i \in 1..Len(last.input) |-> last.input[i].video_id] = <<4, 2, 1, 5>>
    /\ inputs.user_history = <<[video_id |-> 4]>>
    /\ [i \in 1..Len(last.temporal) |-> last.temporal[i].video_id] = <<2, 5>>

\* the number of positions before i in cands that hold the category of cands[i]
EarlierOfCategory(cands, i) ==
    Cardinality({j \in 1..(i - 1) : cands[j].category = cands[i].category})

\* no category other than None occurs more than 3 times in cands
CategoriesCapped(cands) ==
    \A i \in 1..Len(cands) :
        cands[i].category # NoCategory
            => Cardinality({j \in 1..Len(cands) : cands[j].category = cands[i].category})
                  <= MaxPerCategory

\* C24: enforce_category_diversity returns its input restricted, in order, to
\* the candidates without a category and, of each category, the first 3 in
\* input order: no category occurs more than 3 times in its output, and no
\* candidate without a category is removed
C24_CategoryCap ==
    last.op = "enforce_diversity"
        => /\ candidates
                = Restricted(last.temporal,
                             {i \in 1..Len(last.temporal) :
                                 \/ last.temporal[i].category = NoCategory
                                 \/ EarlierOfCategory(last.temporal, i) < MaxPerCategory})
           /\ CategoriesCapped(candidates)

\* the same in every feed generate_feed returns
C24_FeedCategoriesCapped == FeedReturned => CategoriesCapped(candidates)

\* four candidates of category 1 came out of the temporal filter, with a
\* candidate without a category among the first three: the candidate without a
\* category and the first three of category 1 stay
C24_Witness ==
    /\ last.op = "enforce_diversity"
    /\ last.pass = 1
    /\ Len(last.temporal) = MaxPerCategory + 1
    /\ last.temporal[MaxPerCategory + 1].category = 1
    /\ EarlierOfCategory(last.temporal, MaxPerCategory + 1) = MaxPerCategory
    /\ candidates = SubSeq(last.temporal, 1, MaxPerCategory)

\* a feed holding three candidates of one category, where process_candidates
\* had returned more of it
C24_FeedWitness ==
    /\ FeedReturned
    /\ \E i \in 1..Len(candidates) :
          /\ candidates[i].category # NoCategory
          /\ Cardinality({j \in 1..Len(candidates) :
                            candidates[j].category = candidates[i].category})
                = MaxPerCategory
          /\ Cardinality({j \in 1..Len(last.explored) :
                            last.explored[j].category = candidates[i].category})
                > MaxPerCategory

-----------------------------------------------------------------------------
(* Variable reward scheduling (src/lib/addiction/addiction_engine.py):     *)
(* VariableRewardScheduler, and EngagementMaximizer.record_engagement.     *)
(* inputs holds the scheduler's and the maximizer's dictionaries, and      *)
(* recorded, every reward recorded for a user in arrival order.            *)

RewardHistoryMaxLen == 20               \* deque(maxlen=20)
RecentRewardWindow == 5                 \* list(history)[-5:]
LowRewardCount == 3                     \* recent_low_rewards >= 3
LowReward == <<1, 2>>                   \* r < 0.5
CountedReward == <<7, 10>>              \* reward > 0.7
HighProbability == <<4, 5>>             \* probability = 0.8
BaseRewardRate == <<3, 10>>             \* base_reward_rate

MaxRewardOps == 3       \* calls of the scheduler per behaviour

\* d[key] of a defaultdict: the default where the key is absent
GetOr(d, key, default) == IF key \in DOMAIN d THEN d[key] ELSE default

\* an append that keeps every entry
AppendUnbounded(history, reward) == Append(history, reward)

\* deque(maxlen=20).append: the oldest entry leaves a full deque
DequeAppend(history, reward) ==
    LastN(Append(history, reward), RewardHistoryMaxLen)

\* recent_low_rewards of should_show_high_reward
RecentLowRewards(history) ==
    Len(SelectSeq(LastN(history, RecentRewardWindow), LAMBDA r : RLess(r, LowReward)))

\* the probabilities should_show_high_reward may use: 0.8, or
\* base_reward_rate + random.uniform(-0.2, 0.2), of which the model takes the two
\* ends and the middle
Probabilities(history) ==
    IF RecentLowRewards(history) >= LowRewardCount THEN {HighProbability}
    ELSE {RSub(BaseRewardRate, <<1, 5>>), BaseRewardRate, RAdd(BaseRewardRate, <<1, 5>>)}

\* VariableRewardScheduler.record_reward on the dictionaries d
record_reward(d, user_id, reward) ==
    [d EXCEPT
       !.reward_history =
           (user_id :> DequeAppend(GetOr(d.reward_history, user_id, <<>>), reward)) @@ @,
       !.reward_counts =
           IF RLess(CountedReward, reward)
           THEN (user_id :> GetOr(d.reward_counts, user_id, 0) + 1) @@ @
           ELSE @,
       !.recorded = (user_id :> Append(GetOr(d.recorded, user_id, <<>>), reward)) @@ @]

\* EngagementMaximizer.record_engagement
record_engagement(d, user_id, interaction, session_length) ==
    LET engagement == Reward(interaction)
    IN  record_reward(
            [d EXCEPT
               !.user_engagement =
                   (user_id :> RAdd(RMul(GetOr(d.user_engagement, user_id, RZero), <<9, 10>>),
                                    RMul(engagement, <<1, 10>>))) @@ @,
               !.session_lengths =
                   (user_id :> Append(GetOr(d.session_lengths, user_id, <<>>),
                                      session_length)) @@ @],
            user_id, engagement)

RewardUsers == {1, 2}

\* a low reward, the threshold itself, a high reward
RewardValues == {<<1, 5>>, LowReward, <<9, 10>>}

\* nineteen rewards, high and low in turn, the first and the last high
NineteenRewards ==
    [i \in 1..(RewardHistoryMaxLen - 1) |-> IF i % 2 = 1 THEN <<9, 10>> ELSE <<1, 5>>]

\* a scheduler just constructed, and one that has recorded nineteen rewards of
\* user 1
RewardStates ==
    {[reward_history |-> <<>>, reward_counts |-> <<>>, user_engagement |-> <<>>,
      session_lengths |-> <<>>, recorded |-> <<>>],
     [reward_history |-> (1 :> NineteenRewards),
      reward_counts |-> (1 :> 10), user_engagement |-> <<>>,
      session_lengths |-> <<>>, recorded |-> (1 :> NineteenRewards)]}

\* a view liked to the end, and a skip
RewardInteractions ==
    {InteractionOf(1, 1, ROne, FALSE, TRUE, FALSE),
     InteractionOf(1, 1, <<1, 5>>, TRUE, FALSE, FALSE)}

RewardInit ==
    /\ video_states = <<>>
    /\ cohort_baselines = <<>>
    /\ vf_meta = <<>>
    /\ arm_stats = <<>>
    /\ user_embeddings = <<>>
    /\ candidates = <<>>
    /\ inputs \in RewardStates
    /\ nops = 0
    /\ last = NoCall

RewardCall(op, user_id, probability, shown) ==
    [op |-> op, video_id |-> 0, user_id |-> user_id,
     before |-> inputs.reward_history, probability |-> probability, shown |-> shown]

RecordReward(user_id, reward) ==
    /\ nops < MaxRewardOps
    /\ inputs' = record_reward(inputs, user_id, reward)
    /\ last' = RewardCall("record_reward", user_id, RZero, FALSE)
    /\ nops' = nops + 1
    /\ UNCHANGED <<engineVars, candidates>>

RecordEngagement(user_id, interaction, session_length) ==
    /\ nops < MaxRewardOps
    /\ inputs' = record_engagement(inputs, user_id, interaction, session_length)
    /\ last' = RewardCall("record_engagement", user_id, RZero, FALSE)
    /\ nops' = nops + 1
    /\ UNCHANGED <<engineVars, candidates>>

\* should_show_high_reward: reading reward_history[user_id] makes the
\* defaultdict hold an empty deque for a user it did not know; the value
\* returned is random.random() < probability
ShouldShowHighReward(user_id) ==
    /\ nops < MaxRewardOps
    /\ \E probability \in Probabilities(GetOr(inputs.reward_history, user_id, <<>>)),
          shown \in BOOLEAN :
          last' = RewardCall("should_show_high_reward", user_id, probability, shown)
    /\ inputs' = [inputs EXCEPT !.reward_history =
                     (user_id :> GetOr(inputs.reward_history, user_id, <<>>)) @@ @]
    /\ nops' = nops + 1
    /\ UNCHANGED <<engineVars, candidates>>

RewardNext ==
    \/ \E u \in RewardUsers, r \in RewardValues : RecordReward(u, r)
    \/ \E u \in RewardUsers, i \in RewardInteractions : RecordEngagement(u, i, 7)
    \/ \E u \in RewardUsers : ShouldShowHighReward(u)

SpecRewards == RewardInit /\ [][RewardNext]_vars

RewardOps == {"record_reward", "record_engagement", "should_show_high_reward"}

\* the rewards of s, counted from its end, that are below 0.5 among the last 5
LowAmongLastFive(s) ==
    Cardinality({i \in 1..Len(s) : i > Len(s) - RecentRewardWindow /\ RLess(s[i], LowReward)})

\* C25: reward_history[user] is the user's most recent min(n, 20) rewards in
\* arrival order, a call for one user leaves every other user's history as it
\* was, and should_show_high_reward uses the probability 0.8 exactly when at
\* least 3 of the user's last 5 recorded rewards are below 0.5
C25_RewardHistory ==
    /\ \A u \in DOMAIN inputs.reward_history :
          LET all == GetOr(inputs.recorded, u, <<>>)
              n   == Len(all)
              h   == inputs.reward_history[u]
          IN  /\ Len(h) = Min(n, RewardHistoryMaxLen)
              /\ \A i \in 1..Len(h) : h[i] = all[n - Len(h) + i]
    /\ DOMAIN inputs.recorded \subseteq DOMAIN inputs.reward_history
    /\ last.op \in RewardOps
          => /\ \A u \in DOMAIN last.before :
                   u # last.user_id => inputs.reward_history[u] = last.before[u]
             /\ last.op = "should_show_high_reward"
                   => (last.probability = HighProbability
                          <=> LowAmongLastFive(GetOr(inputs.recorded, last.user_id, <<>>))
                                 >= LowRewardCount)

\* the twenty-first reward of user 1 was recorded while user 2 had a history:
\* the first reward recorded has left the history of user 1
C25_Witness ==
    /\ last.op \in {"record_reward", "record_engagement"}
    /\ last.user_id = 1
    /\ Len(inputs.recorded[1]) = RewardHistoryMaxLen + 1
    /\ Len(inputs.reward_history[1]) = RewardHistoryMaxLen
    /\ inputs.reward_history[1][1] = inputs.recorded[1][2]
    /\ 2 \in DOMAIN inputs.reward_history

\* should_show_high_reward used 0.8 for a user whose last five rewards hold
\* three low ones
C25_HighProbabilityUsed ==
    /\ last.op = "should_show_high_reward"
    /\ last.probability = HighProbability
    /\ LowAmongLastFive(inputs.recorded[last.user_id]) = LowRewardCount

-----------------------------------------------------------------------------
(* Continuation hooks, pacing and cliffhanger placement                    *)

\* the positions of cands that hold the video
PositionsOf(cands, video_id) == {i \in 1..Len(cands) : cands[i].video_id = video_id}

\* returned holds every candidate of input once, its score multiplied by its
\* continuation factor once
EachHookedOnce(input, returned) ==
    /\ Len(returned) = Len(input)
    /\ \A i \in 1..Len(input) :
          /\ Cardinality(PositionsOf(returned, input[i].video_id)) = 1
          /\ \A j \in PositionsOf(returned, input[i].video_id) :
                returned[j].ranking_score
                   = ScoreTimes(input[i].ranking_score,
                                ContinuationFactor(input[i].continuation_score))

NonIncreasing(cands) ==
    \A i \in 1..(Len(cands) - 1) :
        ScoreLeq(cands[i + 1].ranking_score, cands[i].ranking_score)

\* C26: optimize_for_continuation multiplies the score of each input candidate
\* by its continuation factor (1.3, 1.15 or 1) exactly once, for lists of every
\* length, and returns the candidates sorted by the new scores, highest first
C26_EachHookedOnce ==
    last.op = "optimize_for_continuation"
        => (EachHookedOnce(last.input, candidates) /\ NonIncreasing(candidates))

\* what holds for every length: the list returned is as long as the input and
\* sorted; and below the length at which cliffhangers are placed each candidate
\* is hooked once
C26_HookedOnceBelowFive ==
    last.op = "optimize_for_continuation"
        => /\ Len(candidates) = Len(last.input)
           /\ NonIncreasing(candidates)
           /\ Len(last.input) < CliffhangerMinLen
                 => EachHookedOnce(last.input, candidates)

\* a list of six: video 1 (score 6, continuation 0.8) is returned twice with
\* the score 6 * 1.3 * 1.3, and a candidate of the input is not returned
C26_HookedTwice ==
    /\ last.op = "optimize_for_continuation"
    /\ Len(last.input) = 6
    /\ Cardinality(PositionsOf(candidates, 1)) = 2
    /\ candidates[1].ranking_score = Plain(<<507, 50>>)
    /\ \E i \in 1..Len(last.input) : PositionsOf(candidates, last.input[i].video_id) = {}

\* b holds the candidates of a, each as often as a does
PermutationOf(a, b) ==
    /\ Len(a) = Len(b)
    /\ \A i \in 1..Len(a) :
          Cardinality({j \in 1..Len(a) : a[j] = a[i]})
             = Cardinality({j \in 1..Len(b) : b[j] = a[i]})

\* the list has the length of the input, and the i-th best candidate of the
\* input is at the i-th of the indices 3, 7, 12, 18 that the list reaches
TopAtCliffhangerPositions(input, returned) ==
    /\ Len(returned) = Len(input)
    /\ Len(input) >= CliffhangerMinLen
          => \A i \in 1..Len(CliffhangerPositions) :
                CliffhangerPositions[i] < Len(input)
                   => returned[CliffhangerPositions[i] + 1] = SortDescending(input)[i]

\* C27 as stated: _apply_pacing returns a permutation of its input,
\* _apply_cliffhangers a list of the same length with the top-ranked items at
\* the indices 3, 7, 12, 18, and below 5 candidates both return the list
\* unmodified
C27_UnmodifiedBelowFive ==
    /\ last.op = "apply_pacing"
          => /\ PermutationOf(last.input, candidates)
             /\ Len(last.input) < CliffhangerMinLen => candidates = last.input
    /\ last.op = "apply_cliffhangers"
          => /\ TopAtCliffhangerPositions(last.input, candidates)
             /\ Len(last.input) < CliffhangerMinLen => candidates = last.input

\* C27 with the thresholds of the code: _apply_pacing returns a permutation of
\* its input, and the input itself below 3 candidates; _apply_cliffhangers
\* returns a list of the same length with the top-ranked items at the indices
\* 3, 7, 12, 18 it reaches, and the input itself below 5 candidates
C27_LengthPreserved ==
    /\ last.op = "apply_pacing"
          => /\ PermutationOf(last.input, candidates)
             /\ Len(last.input) < PacingMinLen => candidates = last.input
    /\ last.op = "apply_cliffhangers"
          => /\ TopAtCliffhangerPositions(last.input, candidates)
             /\ Len(last.input) < CliffhangerMinLen => candidates = last.input

\* cliffhangers placed in a list of eight: the best candidate is at index 3, the
\* second best at index 7, and the list has eight entries
C27_Witness ==
    /\ last.op = "apply_cliffhangers"
    /\ Len(last.input) = 8
    /\ [i \in 1..Len(candidates) |-> candidates[i].video_id] = <<1, 2, 3, 1, 4, 5, 6, 2>>

\* pacing reordered a list of three
C27_PacedThree ==
    /\ last.op = "apply_pacing"
    /\ Len(last.input) = PacingMinLen
    /\ candidates # last.input
    /\ PermutationOf(last.input, candidates)

-----------------------------------------------------------------------------
(* FastEmbeddingCache (src/lib/optimization/performance.py).  inputs holds  *)
(* the cache's cache, access_times and access_order, and clock, the value  *)
(* time.time() returns next; embeddings are not told apart.                *)

MaxCacheSize == 2       \* max_size of the cache
MaxCacheOps == 5        \* calls of get / put per behaviour

CacheKeys == 1..(MaxCacheSize + 1)

\* access_order.remove(video_id): the first occurrence leaves
RemoveFirst(s, x) ==
    LET at == {i \in 1..Len(s) : s[i] = x}
        first == CHOOSE i \in at : \A j \in at : i <= j
    IN  IF at = {} THEN s
        ELSE SubSeq(s, 1, first - 1) \o SubSeq(s, first + 1, Len(s))

\* d without the key
Without(d, key) == [k \in DOMAIN d \ {key} |-> d[k]]

\* the cached key whose access time is the oldest, 0 for an empty cache
LeastRecentlyUsed(c) ==
    IF DOMAIN c.cache = {} THEN 0
    ELSE CHOOSE k \in DOMAIN c.cache :
            \A j \in DOMAIN c.cache : c.access_times[k] <= c.access_times[j]

\* FastEmbeddingCache.get
cache_get(c, video_id) ==
    IF video_id \in DOMAIN c.cache
    THEN [c EXCEPT !.access_times = (video_id :> c.clock) @@ @,
                   !.access_order = Append(RemoveFirst(@, video_id), video_id),
                   !.clock = @ + 1]
    ELSE c

\* lines 54-56 of put: the cache written and the key appended to access_order
Stored(c, video_id) ==
    [c EXCEPT !.cache = (video_id :> TRUE) @@ @,
              !.access_times = (video_id :> c.clock) @@ @,
              !.access_order = Append(@, video_id),
              !.clock = @ + 1]

\* FastEmbeddingCache.put: the error it ends with, the key it evicted (0 if
\* none) and the cache it leaves.  popleft of an empty deque raises IndexError;
\* `del self.cache[lru_id]` of a key that was evicted before raises KeyError,
\* after the key has left access_order.
cache_put(c, video_id) ==
    IF Cardinality(DOMAIN c.cache) >= MaxCacheSize /\ video_id \notin DOMAIN c.cache
    THEN IF c.access_order = <<>>
         THEN [error |-> "IndexError", evicted |-> 0, c |-> c]
         ELSE LET lru_id == Head(c.access_order)
                  popped == [c EXCEPT !.access_order = Tail(@)]
              IN  IF lru_id \notin DOMAIN c.cache
                  THEN [error |-> "KeyError", evicted |-> 0, c |-> popped]
                  ELSE [error |-> "none", evicted |-> lru_id,
                        c |-> Stored([popped EXCEPT
                                        !.cache = Without(@, lru_id),
                                        !.access_times = Without(@, lru_id)],
                                     video_id)]
    ELSE [error |-> "none", evicted |-> 0, c |-> Stored(c, video_id)]

CacheInit ==
    /\ video_states = <<>>
    /\ cohort_baselines = <<>>
    /\ vf_meta = <<>>
    /\ arm_stats = <<>>
    /\ user_embeddings = <<>>
    /\ candidates = <<>>
    /\ inputs = [cache |-> <<>>, access_times |-> <<>>, access_order |-> <<>>,
                 clock |-> 1]
    /\ nops = 0
    /\ last = NoCall

CacheGet(video_id) ==
    /\ nops < MaxCacheOps
    /\ inputs' = cache_get(inputs, video_id)
    /\ last' = [op |-> "get", video_id |-> video_id, error |-> "none",
                hit |-> video_id \in DOMAIN inputs.cache]
    /\ nops' = nops + 1
    /\ UNCHANGED <<engineVars, candidates>>

\* full_new: the call was a put of a new key into a full cache; lru: the key
\* whose last get or put was the oldest when the call was made
CachePut(video_id) ==
    /\ nops < MaxCacheOps
    /\ LET r == cache_put(inputs, video_id)
       IN  /\ inputs' = r.c
           /\ last' = [op |-> "put", video_id |-> video_id, error |-> r.error,
                       evicted |-> r.evicted,
                       full_new |-> (/\ Cardinality(DOMAIN inputs.cache) >= MaxCacheSize
                                     /\ video_id \notin DOMAIN inputs.cache),
                       lru |-> LeastRecentlyUsed(inputs),
                       before |-> DOMAIN inputs.cache]
    /\ nops' = nops + 1
    /\ UNCHANGED <<engineVars, candidates>>

CacheNext ==
    \/ \E v \in CacheKeys : CacheGet(v)
    \/ \E v \in CacheKeys : CachePut(v)

SpecCache == CacheInit /\ [][CacheNext]_vars

\* the cache holds at most max_size entries and access_times has its keys
BoundedSameKeys ==
    /\ Cardinality(DOMAIN inputs.cache) <= MaxCacheSize
    /\ DOMAIN inputs.access_times = DOMAIN inputs.cache

\* C28: the cache is an LRU cache: put never fails, the cache holds at most
\* max_size entries, cache and access_times have the same keys, and a put of a
\* new key into a full cache evicts exactly the key whose last get or put was
\* the oldest among the keys cached
C28_LruCache ==
    /\ BoundedSameKeys
    /\ last.op = "put"
          => /\ last.error = "none"
             /\ last.full_new
                   => /\ last.evicted = last.lru
                      /\ DOMAIN inputs.cache = (last.before \ {last.lru}) \cup {last.video_id}
             /\ ~last.full_new
                   => DOMAIN inputs.cache = last.before \cup {last.video_id}

\* the part that holds after every call, failed puts included
C28_BoundedSameKeys == BoundedSameKeys

\* a put evicted a key that was not the least recently used one
C28_EvictedRecentlyUsed ==
    /\ last.op = "put"
    /\ last.error = "none"
    /\ last.full_new
    /\ last.evicted # last.lru

\* a put failed with KeyError
C28_PutFailed ==
    /\ last.op = "put"
    /\ last.error = "KeyError"
    /\ last.video_id \notin DOMAIN inputs.cache

-----------------------------------------------------------------------------
(* ViralityEngine.update_from_interactions and the batch it is given       *)

\* the last call was update_from_interactions for an item that has a state
UpdatedFromBatch == last.op = "update_from_interactions" /\ last.had_state

\* the call took the expanding branch of viral_expansion
TookExpansion == video_states[last.video_id].stage = "expanding"

\* the call multiplied the state's viral_expansion_factor
FactorMultiplied == FactorOf(video_states, last.video_id) # last.pre_factor

\* C29: in update_from_interactions the batch just supplied decides: users are
\* returned and exposure grows only if the score normalize_performance returned
\* for the batch exceeds expansion_threshold, viral_expansion_factor is
\* multiplied exactly when exposure is, and a call with an empty batch never
\* expands
C29_ExpansionDecidedByBatch ==
    UpdatedFromBatch
        => /\ (TookExpansion \/ last.ret_users # <<>>)
                 => RLess(ExpansionThreshold, last.ret_score)
           /\ FactorMultiplied <=> TookExpansion
           /\ last.n_interactions = 0 => ~TookExpansion

\* what decides: the expansion follows the score the state holds, the factor
\* the score returned; for a batch that is not empty the two are the same score
C29_DecidedByStoredScore ==
    UpdatedFromBatch
        => /\ TookExpansion
                 <=> RLess(ExpansionThreshold, video_states[last.video_id].performance_score)
           /\ FactorMultiplied <=> RLess(ExpansionThreshold, last.ret_score)
           /\ last.n_interactions > 0
                 => /\ video_states[last.video_id].performance_score = last.ret_score
                    /\ FactorMultiplied <=> TookExpansion

\* an empty batch after a batch that scored above the threshold: the score
\* returned is 0, exposure doubles again and users are returned, and
\* viral_expansion_factor stays as it was
C29_EmptyBatchExpanded ==
    /\ UpdatedFromBatch
    /\ last.n_interactions = 0
    /\ last.ret_score = RZero
    /\ last.pre_stage = "expanding"
    /\ TookExpansion
    /\ video_states[last.video_id].exposure_count = 2 * last.pre_exposure
    /\ last.pre_exposure > 0
    /\ last.ret_users # <<>>
    /\ ~FactorMultiplied

-----------------------------------------------------------------------------
(* SeamlessRealTimeService                                                 *)
(* (src/implementations/v1/services/real_time_service.py).  inputs holds   *)
(* the service: whether __init__ has run, whether _initialize_components   *)
(* built a ServingService, whether serving_service and training_service    *)
(* are set (not None), running, and the number of tasks record_interaction *)
(* has created.                                                            *)

MaxServiceOps == 4      \* calls of the service per behaviour

ServiceUsers == {1, 2, 9}

ServiceSessionLengths == {0, 7, 20}

\* the object before __init__
NoService ==
    [constructed |-> FALSE, components |-> FALSE, serving_service |-> FALSE,
     training_service |-> FALSE, running |-> FALSE, tasks |-> 0]

\* _initialize_components: its last statement sets self.serving_service
initialize_components(s) == [s EXCEPT !.components = TRUE, !.serving_service = TRUE]

\* __init__: the components, then the service state, lines 54-56:
\* self.running = False, self.training_service = None,
\* self.serving_service = None
service_init(s) ==
    [initialize_components(s) EXCEPT !.constructed = TRUE,
                                     !.running = FALSE,
                                     !.training_service = FALSE,
                                     !.serving_service = FALSE]

\* get_recommendations: `if not self.serving_service: raise RuntimeError`
get_recommendations(s) ==
    IF ~s.serving_service
    THEN [error |-> "RuntimeError: Service not started", delegated |-> FALSE]
    ELSE [error |-> "none", delegated |-> TRUE]

ServiceInit ==
    /\ video_states = <<>>
    /\ cohort_baselines = <<>>
    /\ vf_meta = <<>>
    /\ arm_stats = <<>>
    /\ user_embeddings = <<>>
    /\ candidates = <<>>
    /\ inputs = NoService
    /\ nops = 0
    /\ last = NoCall

ServiceCalled(op, s) ==
    /\ nops < MaxServiceOps
    /\ inputs' = s
    /\ nops' = nops + 1
    /\ UNCHANGED <<engineVars, candidates>>

\* SeamlessRealTimeService(config_path)
ServiceConstruct ==
    /\ ~inputs.constructed
    /\ ServiceCalled("__init__", service_init(inputs))
    /\ last' = [op |-> "__init__", video_id |-> 0, error |-> "none"]

\* start(), up to the tasks it creates and waits for: running, and the training
\* service; serving_service is not assigned
ServiceStart ==
    /\ inputs.constructed
    /\ ~inputs.running
    /\ ServiceCalled("start", [inputs EXCEPT !.running = TRUE,
                                             !.training_service = TRUE])
    /\ last' = [op |-> "start", video_id |-> 0, error |-> "none"]

\* stop()
ServiceStop ==
    /\ inputs.constructed
    /\ ServiceCalled("stop", [inputs EXCEPT !.running = FALSE])
    /\ last' = [op |-> "stop", video_id |-> 0, error |-> "none"]

ServiceGetRecommendations(user_id, current_length) ==
    /\ inputs.constructed
    /\ ServiceCalled("get_recommendations", inputs)
    /\ last' = [op |-> "get_recommendations", video_id |-> 0, user_id |-> user_id,
                current_length |-> current_length,
                started |-> inputs.training_service,
                error |-> get_recommendations(inputs).error,
                delegated |-> get_recommendations(inputs).delegated]

\* record_interaction: a task for auto_trainer.process_interaction
ServiceRecordInteraction(user_id) ==
    /\ inputs.constructed
    /\ ServiceCalled("record_interaction", [inputs EXCEPT !.tasks = @ + 1])
    /\ last' = [op |-> "record_interaction", video_id |-> 0, user_id |-> user_id,
                error |-> "none"]

ServiceNext ==
    \/ ServiceConstruct
    \/ ServiceStart
    \/ ServiceStop
    \/ \E u \in ServiceUsers, n \in ServiceSessionLengths : ServiceGetRecommendations(u, n)
    \/ \E u \in ServiceUsers : ServiceRecordInteraction(u)

SpecService == ServiceInit /\ [][ServiceNext]_vars

\* C30: once the service is constructed, its components initialised, and
\* likewise after start(), get_recommendations delegates to the serving service
\* and returns a feed; it raises 'Service not started' only when no serving
\* service was ever initialised
C30_DelegatesOnceConstructed ==
    (last.op = "get_recommendations" /\ inputs.components)
        => (last.delegated /\ last.error = "none")

\* what the service does: no call leaves serving_service set, and every call of
\* get_recommendations raises
C30_NeverServes ==
    /\ ~inputs.serving_service
    /\ last.op = "get_recommendations"
          => (~last.delegated /\ last.error = "RuntimeError: Service not started")

\* get_recommendations raised after start(), with the components built
C30_RaisedAfterStart ==
    /\ last.op = "get_recommendations"
    /\ last.started
    /\ inputs.running
    /\ inputs.components
    /\ last.error = "RuntimeError: Service not started"

====
